---- MODULE Spec2Model ----
(***************************************************************************)
(* Draft-lottery engine of dynasty-football-draft-lottery                  *)
(* (src/src/lib/database.ts, lines 111-339).                               *)
(*                                                                         *)
(* runCompleteLottery is modelled as a state machine: the length check,    *)
(* the round loop, the attempt loop of runLotteryRound, the identity       *)
(* fallback and the per-round validation are its steps.  One attempt (the  *)
(* body of the try block, whose locals are block-scoped and die at the     *)
(* catch) is one step; the possible results of an attempt are computed by  *)
(* the operators below from the code of the attempt.                       *)
(*                                                                         *)
(* Numbers: a percentage is held in tenths of a percent (3.1 is 31); a     *)
(* draw of Math.random() is the rational random/DrawDen; the weights of    *)
(* weightedRandomSelection are held times 5 (1 + 0.2*m is (5 + m)/5), and  *)
(* the comparisons of the cumulative walk are done on cross-multiplied     *)
(* integers, i.e. in exact arithmetic (floating-point rounding is not      *)
(* modelled).                                                              *)
(* A team id is the number k of the id 'team-k'.                           *)
(***************************************************************************)
EXTENDS Integers, Sequences, FiniteSets, TLC

(* ---------------- bounds of the model ---------------- *)
(* Largest roster, largest number of rounds, largest pick list             *)
(* (numberOfTeams * numberOfRounds) and the resolution of the random       *)
(* source.                                                                 *)
MaxTeams == 4
MaxRounds == 2
MaxPicks == 6
DrawDen == 10

(* The attempt ceiling of runLotteryRound.  The source sets it to 1000     *)
(* (line 235); the loop is run here with a small ceiling, which no line of *)
(* the loop depends on: "attempt number 1000" of the source is attempt     *)
(* number MAX_ATTEMPTS of the model.                                       *)
MAX_ATTEMPTS == 3

(* ---------------- program constants ---------------- *)
(* One more, and one less, than the cap of line 116. *)
MAX_MOVEMENT_Three == 2 + 1

MAX_MOVEMENT_One == 2 - 1

MAX_MOVEMENT == 2

VARIABLES config, initialOrder, pc, round, attempt, lastAttempt,
          roundPicks, path, allPicks, error, roundCalls, call, tryBlock,
          file, procs, history

(* The variables of the Database class: the content of database.json, the  *)
(* Database calls in flight, and a record of the calls made so far.        *)
dbVars == <<file, procs, history>>

(* The variables of the lottery engine, of the direct calls and of one     *)
(* try block of runLotteryRound followed statement by statement.           *)
lotteryVars == <<config, initialOrder, pc, round, attempt, lastAttempt,
                 roundPicks, path, allPicks, error, roundCalls, call, tryBlock>>

vars == <<config, initialOrder, pc, round, attempt, lastAttempt,
          roundPicks, path, allPicks, error, roundCalls, call, tryBlock, dbVars>>

(* ---------------- arithmetic helpers ---------------- *)
Max(a, b) == IF a >= b THEN a ELSE b

Min(a, b) == IF a <= b THEN a ELSE b

Abs(x) == IF x < 0 THEN -x ELSE x

Range(s) == {s[i] : i \in DOMAIN s}

(* Array.prototype.sort with comparator a.pickNumber - b.pickNumber: a     *)
(* stable sort, ascending by pickNumber.                                   *)
RECURSIVE InsertByPickNumber(_, _)
InsertByPickNumber(sorted, p) ==
  IF sorted = <<>> THEN <<p>>
  ELSE IF sorted[Len(sorted)].pickNumber <= p.pickNumber
       THEN Append(sorted, p)
       ELSE Append(InsertByPickNumber(SubSeq(sorted, 1, Len(sorted) - 1), p),
                   sorted[Len(sorted)])

(* The sort left out. *)
SortByPickNumber_NoSort(picks) == picks

RECURSIVE SortByPickNumber(_)
SortByPickNumber(picks) ==
  IF picks = <<>> THEN <<>>
  ELSE InsertByPickNumber(SortByPickNumber(SubSeq(picks, 1, Len(picks) - 1)),
                          picks[Len(picks)])

(* ---------------- getValidPositionRange ---------------- *)
(* The upper end not clamped to totalTeams. *)
getValidPositionRange_NoUpperClamp(originalPosition, totalTeams) ==
  [min |-> Max(1, originalPosition - MAX_MOVEMENT),
   max |-> originalPosition + MAX_MOVEMENT]

(* The lower end not clamped to 1. *)
getValidPositionRange_NoLowerClamp(originalPosition, totalTeams) ==
  [min |-> originalPosition - MAX_MOVEMENT,
   max |-> Min(totalTeams, originalPosition + MAX_MOVEMENT)]

getValidPositionRange(originalPosition, totalTeams) ==
  [min |-> Max(1, originalPosition - MAX_MOVEMENT),
   max |-> Min(totalTeams, originalPosition + MAX_MOVEMENT)]

(* ---------------- validateDraftResults ---------------- *)
(* An error message is held as the two numbers it prints.                  *)
(* The movement recomputed from pickNumber and originalPosition. *)
validateDraftResults_RecomputesMovement(picks) ==
  LET offending == SelectSeq(picks,
                     LAMBDA pick : Abs(pick.pickNumber - pick.originalPosition)
                                     > MAX_MOVEMENT)
      errors == [i \in 1..Len(offending) |->
                   [originalPosition |-> offending[i].originalPosition,
                    movement |-> Abs(offending[i].pickNumber
                                     - offending[i].originalPosition)]]
  IN [valid |-> Len(errors) = 0, errors |-> errors]

(* movement >= MAX_MOVEMENT in place of movement > MAX_MOVEMENT. *)
validateDraftResults_AtLeast(picks) ==
  LET offending == SelectSeq(picks, LAMBDA pick : Abs(pick.movement) >= MAX_MOVEMENT)
      errors == [i \in 1..Len(offending) |->
                   [originalPosition |-> offending[i].originalPosition,
                    movement |-> Abs(offending[i].movement)]]
  IN [valid |-> Len(errors) = 0, errors |-> errors]

(* The test of line 139 without Math.abs. *)
validateDraftResults_SignedMovement(picks) ==
  LET offending == SelectSeq(picks, LAMBDA pick : pick.movement > MAX_MOVEMENT)
      errors == [i \in 1..Len(offending) |->
                   [originalPosition |-> offending[i].originalPosition,
                    movement |-> Abs(offending[i].movement)]]
  IN [valid |-> Len(errors) = 0, errors |-> errors]

validateDraftResults(picks) ==
  LET offending == SelectSeq(picks, LAMBDA pick : Abs(pick.movement) > MAX_MOVEMENT)
      errors == [i \in 1..Len(offending) |->
                   [originalPosition |-> offending[i].originalPosition,
                    movement |-> Abs(offending[i].movement)]]
  IN [valid |-> Len(errors) = 0, errors |-> errors]

(* ---------------- weightedRandomSelection ---------------- *)
(* weightedSystem.find(odds => odds.position === originalPosition): the    *)
(* index of the first matching entry, 0 when there is none.                *)
FindOdds(weightedSystem, originalPosition) ==
  LET hits == {i \in DOMAIN weightedSystem :
                 weightedSystem[i].position = originalPosition}
  IN IF hits = {} THEN 0 ELSE CHOOSE i \in hits : \A j \in hits : i <= j

(* The movement added to the percentage instead of scaling it. *)
CandidateWeight_AdditiveBonus(percentage, originalPosition, pos) ==
  LET movement == originalPosition - pos
  IN percentage * 5 + movement

(* The weight of a move away from position 1 raised instead of lowered. *)
CandidateWeight_DownIncreases(percentage, originalPosition, pos) ==
  LET movement == originalPosition - pos
  IN IF movement > 0 THEN percentage * (5 + movement)
     ELSE IF movement < 0 THEN percentage * (5 + Abs(movement))
     ELSE percentage * 5

(* Raw weight of candidate pos, times 5. *)
CandidateWeight(percentage, originalPosition, pos) ==
  LET movement == originalPosition - pos
  IN IF movement > 0 THEN percentage * (5 + movement)
     ELSE IF movement < 0 THEN percentage * (5 - Abs(movement))
     ELSE percentage * 5

RECURSIVE SumWeights(_, _)
SumWeights(weights, n) ==
  IF n = 0 THEN 0 ELSE SumWeights(weights, n - 1) + weights[n]

(* random <= cumulative, where cumulative = cum/totalWeight and            *)
(* random = random/DrawDen; NaN (totalWeight = 0) compares false.          *)
DrawReached(random, cum, totalWeight) ==
  IF totalWeight > 0 THEN random * totalWeight <= cum * DrawDen
  ELSE IF totalWeight < 0 THEN random * totalWeight >= cum * DrawDen
  ELSE FALSE

(* The window of line 164 bounded by weightedSystem.length - 1. *)
weightedRandomSelection_WindowOneShort(availablePositions, weightedSystem, originalPosition, random) ==
  LET validRange == getValidPositionRange(originalPosition, Len(weightedSystem) - 1)
      validPositions == SelectSeq(availablePositions,
                          LAMBDA pos : pos >= validRange.min /\ pos <= validRange.max)
      oddsIdx == FindOdds(weightedSystem, originalPosition)
  IN IF Len(validPositions) = 0
       THEN [ok |-> FALSE, error |-> "No valid positions available", value |-> 0]
     ELSE IF Len(validPositions) = 1
       THEN [ok |-> TRUE, error |-> "", value |-> validPositions[1]]
     ELSE IF oddsIdx = 0
       THEN [ok |-> FALSE, error |-> "No weighted odds found", value |-> 0]
     ELSE
       LET teamOdds == weightedSystem[oddsIdx]
           weights == [i \in 1..Len(validPositions) |->
                         CandidateWeight(teamOdds.percentage, originalPosition,
                                         validPositions[i])]
           totalWeight == SumWeights(weights, Len(weights))
           reached == {i \in 1..Len(validPositions) :
                         DrawReached(random, SumWeights(weights, i), totalWeight)}
       IN IF reached = {}
            THEN [ok |-> TRUE, error |-> "", value |-> validPositions[1]]
          ELSE [ok |-> TRUE, error |-> "",
                value |-> validPositions[CHOOSE i \in reached : \A j \in reached : i <= j]]

(* Line 223 written return availablePositions[0]. *)
weightedRandomSelection_FallbackFromAvailable(availablePositions, weightedSystem, originalPosition, random) ==
  LET validRange == getValidPositionRange(originalPosition, Len(weightedSystem))
      validPositions == SelectSeq(availablePositions,
                          LAMBDA pos : pos >= validRange.min /\ pos <= validRange.max)
      oddsIdx == FindOdds(weightedSystem, originalPosition)
  IN IF Len(validPositions) = 0
       THEN [ok |-> FALSE, error |-> "No valid positions available", value |-> 0]
     ELSE IF Len(validPositions) = 1
       THEN [ok |-> TRUE, error |-> "", value |-> validPositions[1]]
     ELSE IF oddsIdx = 0
       THEN [ok |-> FALSE, error |-> "No weighted odds found", value |-> 0]
     ELSE
       LET teamOdds == weightedSystem[oddsIdx]
           weights == [i \in 1..Len(validPositions) |->
                         CandidateWeight(teamOdds.percentage, originalPosition,
                                         validPositions[i])]
           totalWeight == SumWeights(weights, Len(weights))
           reached == {i \in 1..Len(validPositions) :
                         DrawReached(random, SumWeights(weights, i), totalWeight)}
       IN IF reached = {}
            THEN [ok |-> TRUE, error |-> "", value |-> availablePositions[1]]
          ELSE [ok |-> TRUE, error |-> "",
                value |-> validPositions[CHOOSE i \in reached : \A j \in reached : i <= j]]

(* The odds lookup of lines 182-185 moved before the checks of lines      *)
(* 170-179.                                                                *)
weightedRandomSelection_LookupFirst(availablePositions, weightedSystem, originalPosition, random) ==
  LET validRange == getValidPositionRange(originalPosition, Len(weightedSystem))
      validPositions == SelectSeq(availablePositions,
                          LAMBDA pos : pos >= validRange.min /\ pos <= validRange.max)
      oddsIdx == FindOdds(weightedSystem, originalPosition)
  IN IF oddsIdx = 0
       THEN [ok |-> FALSE, error |-> "No weighted odds found", value |-> 0]
     ELSE IF Len(validPositions) = 0
       THEN [ok |-> FALSE, error |-> "No valid positions available", value |-> 0]
     ELSE IF Len(validPositions) = 1
       THEN [ok |-> TRUE, error |-> "", value |-> validPositions[1]]
     ELSE
       LET teamOdds == weightedSystem[oddsIdx]
           weights == [i \in 1..Len(validPositions) |->
                         CandidateWeight(teamOdds.percentage, originalPosition,
                                         validPositions[i])]
           totalWeight == SumWeights(weights, Len(weights))
           reached == {i \in 1..Len(validPositions) :
                         DrawReached(random, SumWeights(weights, i), totalWeight)}
       IN IF reached = {}
            THEN [ok |-> TRUE, error |-> "", value |-> validPositions[1]]
          ELSE [ok |-> TRUE, error |-> "",
                value |-> validPositions[CHOOSE i \in reached : \A j \in reached : i <= j]]

(* The check of lines 183-185 left out: without an odds entry the first    *)
(* valid position is returned.                                             *)
weightedRandomSelection_NoOddsCheck(availablePositions, weightedSystem, originalPosition, random) ==
  LET validRange == getValidPositionRange(originalPosition, Len(weightedSystem))
      validPositions == SelectSeq(availablePositions,
                          LAMBDA pos : pos >= validRange.min /\ pos <= validRange.max)
      oddsIdx == FindOdds(weightedSystem, originalPosition)
  IN IF Len(validPositions) = 0
       THEN [ok |-> FALSE, error |-> "No valid positions available", value |-> 0]
     ELSE IF Len(validPositions) = 1
       THEN [ok |-> TRUE, error |-> "", value |-> validPositions[1]]
     ELSE IF oddsIdx = 0
       THEN [ok |-> TRUE, error |-> "", value |-> validPositions[1]]
     ELSE
       LET teamOdds == weightedSystem[oddsIdx]
           weights == [i \in 1..Len(validPositions) |->
                         CandidateWeight(teamOdds.percentage, originalPosition,
                                         validPositions[i])]
           totalWeight == SumWeights(weights, Len(weights))
           reached == {i \in 1..Len(validPositions) :
                         DrawReached(random, SumWeights(weights, i), totalWeight)}
       IN IF reached = {}
            THEN [ok |-> TRUE, error |-> "", value |-> validPositions[1]]
          ELSE [ok |-> TRUE, error |-> "",
                value |-> validPositions[CHOOSE i \in reached : \A j \in reached : i <= j]]

(* The shortcut of lines 177-179 left out. *)
weightedRandomSelection_NoSingleShortcut(availablePositions, weightedSystem, originalPosition, random) ==
  LET validRange == getValidPositionRange(originalPosition, Len(weightedSystem))
      validPositions == SelectSeq(availablePositions,
                          LAMBDA pos : pos >= validRange.min /\ pos <= validRange.max)
      oddsIdx == FindOdds(weightedSystem, originalPosition)
  IN IF Len(validPositions) = 0
       THEN [ok |-> FALSE, error |-> "No valid positions available", value |-> 0]
     ELSE IF oddsIdx = 0
       THEN [ok |-> FALSE, error |-> "No weighted odds found", value |-> 0]
     ELSE
       LET teamOdds == weightedSystem[oddsIdx]
           weights == [i \in 1..Len(validPositions) |->
                         CandidateWeight(teamOdds.percentage, originalPosition,
                                         validPositions[i])]
           totalWeight == SumWeights(weights, Len(weights))
           reached == {i \in 1..Len(validPositions) :
                         DrawReached(random, SumWeights(weights, i), totalWeight)}
       IN IF reached = {}
            THEN [ok |-> TRUE, error |-> "", value |-> validPositions[1]]
          ELSE [ok |-> TRUE, error |-> "",
                value |-> validPositions[CHOOSE i \in reached : \A j \in reached : i <= j]]

weightedRandomSelection(availablePositions, weightedSystem, originalPosition, random) ==
  LET validRange == getValidPositionRange(originalPosition, Len(weightedSystem))
      validPositions == SelectSeq(availablePositions,
                          LAMBDA pos : pos >= validRange.min /\ pos <= validRange.max)
      oddsIdx == FindOdds(weightedSystem, originalPosition)
  IN IF Len(validPositions) = 0
       THEN [ok |-> FALSE, error |-> "No valid positions available", value |-> 0]
     ELSE IF Len(validPositions) = 1
       THEN [ok |-> TRUE, error |-> "", value |-> validPositions[1]]
     ELSE IF oddsIdx = 0
       THEN [ok |-> FALSE, error |-> "No weighted odds found", value |-> 0]
     ELSE
       LET teamOdds == weightedSystem[oddsIdx]
           weights == [i \in 1..Len(validPositions) |->
                         CandidateWeight(teamOdds.percentage, originalPosition,
                                         validPositions[i])]
           totalWeight == SumWeights(weights, Len(weights))
           reached == {i \in 1..Len(validPositions) :
                         DrawReached(random, SumWeights(weights, i), totalWeight)}
       IN IF reached = {}
            THEN [ok |-> TRUE, error |-> "", value |-> validPositions[1]]
          ELSE [ok |-> TRUE, error |-> "",
                value |-> validPositions[CHOOSE i \in reached : \A j \in reached : i <= j]]

(* ---------------- runLotteryRound: one attempt ---------------- *)
(* Math.random() in [0,1): the numerators of the draws random/DrawDen.     *)
Draws == 0..(DrawDen - 1)

(* The result of one attempt (lines 241-301).  returned = TRUE: the        *)
(* attempt reached the return of line 297 and picks is the sorted list;    *)
(* otherwise the attempt was abandoned (an error was caught at line 299,   *)
(* or allValid was false), its picks are dropped, error names the cause    *)
(* and processed counts the teams that had been given a position.          *)
AttemptReturned(picks) ==
  [returned |-> TRUE, picks |-> picks, processed |-> Len(picks), error |-> ""]

(* The catch block handing back what the attempt had collected. *)
AttemptAbandoned_ReturnsPicks(picks, err) ==
  [returned |-> TRUE, picks |-> picks, processed |-> Len(picks), error |-> err]

AttemptAbandoned(picks, err) ==
  [returned |-> FALSE, picks |-> <<>>, processed |-> Len(picks), error |-> err]

(* config.teams[originalPosition - 1].id throws a TypeError when the team  *)
(* list has no element at that index.                                      *)
(* config.teams[originalPosition] in place of [originalPosition - 1]. *)
TeamLookupFails_OffByOne(cfg, order) ==
  \E i \in DOMAIN order : (order[i] + 1) \notin DOMAIN cfg.teams

TeamLookupFails(cfg, order) ==
  \E i \in DOMAIN order : order[i] \notin DOMAIN cfg.teams

(* The index taken as the original position and the entry as the team. *)
TeamsOf_IndexIsPosition(cfg, order) ==
  [i \in DOMAIN order |->
     [originalPosition |-> i, teamId |-> cfg.teams[order[i]].id]]

(* const teams = initialOrder.map(...) (lines 246-249) *)
TeamsOf(cfg, order) ==
  [i \in DOMAIN order |->
     [originalPosition |-> order[i], teamId |-> cfg.teams[order[i]].id]]

(* The positions of line 258 written (_, i) => i. *)
AvailablePositions_ZeroBased(cfg, assignedPositions) ==
  SelectSeq([i \in 1..cfg.numberOfTeams |-> i - 1],
            LAMBDA pos : pos \notin assignedPositions)

(* Array.from({length: numberOfTeams}, (_, i) => i + 1).filter(...)        *)
AvailablePositions(cfg, assignedPositions) ==
  SelectSeq([i \in 1..cfg.numberOfTeams |-> i],
            LAMBDA pos : pos \notin assignedPositions)

(* validPositions of runLotteryRound (lines 257-266): the unassigned       *)
(* positions inside the window bounded by config.numberOfTeams.            *)
RoundCandidates(cfg, originalPosition, assignedPositions) ==
  LET validRange == getValidPositionRange(originalPosition, cfg.numberOfTeams)
  IN SelectSeq(AvailablePositions(cfg, assignedPositions),
               LAMBDA pos : pos >= validRange.min /\ pos <= validRange.max)

(* validPositions of weightedRandomSelection (lines 164-167): the          *)
(* available positions inside the window bounded by weightedSystem.length. *)
SelectionCandidates(availablePositions, weightedSystem, originalPosition) ==
  LET validRange == getValidPositionRange(originalPosition, Len(weightedSystem))
  IN SelectSeq(availablePositions,
               LAMBDA pos : pos >= validRange.min /\ pos <= validRange.max)

(* The loop body without assignedPositions.add(selectedPosition)         *)
(* (line 279).                                                             *)
ProcessTeam_NoAdd(cfg, roundNumber, team, assignedPositions, picks, random) ==
  LET availablePositions == AvailablePositions(cfg, assignedPositions)
      validRange == getValidPositionRange(team.originalPosition, cfg.numberOfTeams)
      validPositions == SelectSeq(availablePositions,
                          LAMBDA pos : pos >= validRange.min /\ pos <= validRange.max)
      selection == weightedRandomSelection(availablePositions, cfg.weightedSystem,
                                           team.originalPosition, random)
      selectedPosition == selection.value
  IN IF Len(validPositions) = 0
       THEN [thrown |-> TRUE, error |-> "No valid positions",
             assignedPositions |-> assignedPositions, picks |-> picks]
     ELSE IF ~selection.ok
       THEN [thrown |-> TRUE, error |-> selection.error,
             assignedPositions |-> assignedPositions, picks |-> picks]
     ELSE [thrown |-> FALSE, error |-> "",
           assignedPositions |-> assignedPositions,
           picks |-> Append(picks, [round |-> roundNumber,
                                    pickNumber |-> selectedPosition,
                                    teamId |-> team.teamId,
                                    originalPosition |-> team.originalPosition,
                                    movement |-> selectedPosition - team.originalPosition])]

(* The loop body with line 281 written team.originalPosition -          *)
(* selectedPosition, the sign that lines 190 use for the weights.          *)
ProcessTeam_MovementReversed(cfg, roundNumber, team, assignedPositions, picks, random) ==
  LET availablePositions == AvailablePositions(cfg, assignedPositions)
      validRange == getValidPositionRange(team.originalPosition, cfg.numberOfTeams)
      validPositions == SelectSeq(availablePositions,
                          LAMBDA pos : pos >= validRange.min /\ pos <= validRange.max)
      selection == weightedRandomSelection(availablePositions, cfg.weightedSystem,
                                           team.originalPosition, random)
      selectedPosition == selection.value
  IN IF Len(validPositions) = 0
       THEN [thrown |-> TRUE, error |-> "No valid positions",
             assignedPositions |-> assignedPositions, picks |-> picks]
     ELSE IF ~selection.ok
       THEN [thrown |-> TRUE, error |-> selection.error,
             assignedPositions |-> assignedPositions, picks |-> picks]
     ELSE [thrown |-> FALSE, error |-> "",
           assignedPositions |-> assignedPositions \cup {selectedPosition},
           picks |-> Append(picks, [round |-> roundNumber,
                                    pickNumber |-> selectedPosition,
                                    teamId |-> team.teamId,
                                    originalPosition |-> team.originalPosition,
                                    movement |-> team.originalPosition - selectedPosition])]

(* The body of the for loop (lines 256-289) for one team and one draw:    *)
(* either an error is thrown, or the position is marked assigned and the   *)
(* pick is pushed.                                                         *)
ProcessTeam(cfg, roundNumber, team, assignedPositions, picks, random) ==
  LET availablePositions == AvailablePositions(cfg, assignedPositions)
      validRange == getValidPositionRange(team.originalPosition, cfg.numberOfTeams)
      validPositions == SelectSeq(availablePositions,
                          LAMBDA pos : pos >= validRange.min /\ pos <= validRange.max)
      selection == weightedRandomSelection(availablePositions, cfg.weightedSystem,
                                           team.originalPosition, random)
      selectedPosition == selection.value
  IN IF Len(validPositions) = 0
       THEN [thrown |-> TRUE, error |-> "No valid positions",
             assignedPositions |-> assignedPositions, picks |-> picks]
     ELSE IF ~selection.ok
       THEN [thrown |-> TRUE, error |-> selection.error,
             assignedPositions |-> assignedPositions, picks |-> picks]
     ELSE [thrown |-> FALSE, error |-> "",
           assignedPositions |-> assignedPositions \cup {selectedPosition},
           picks |-> Append(picks, [round |-> roundNumber,
                                    pickNumber |-> selectedPosition,
                                    teamId |-> team.teamId,
                                    originalPosition |-> team.originalPosition,
                                    movement |-> selectedPosition - team.originalPosition])]

(* Lines 293-298 once every team is processed. *)
FinishAttempt(picks) ==
  LET allValid == \A i \in DOMAIN picks : Abs(picks[i].movement) <= MAX_MOVEMENT
  IN IF allValid THEN AttemptReturned(SortByPickNumber(picks))
     ELSE AttemptAbandoned(picks, "not all valid")

(* The attempts in progress, all with the same number of teams processed,  *)
(* taken one team further; the set of results of the attempts that end.    *)
(* shuffledTeams = [...teams].sort(() => Math.random() - 0.5) (line 252)   *)
(* is some arrangement of teams, so the team the loop takes next is any    *)
(* team it has not taken yet (remaining holds their indices).  A list of   *)
(* picks in progress is kept in pickNumber order: the code reads it only   *)
(* with every() and with the final sort on pickNumber, and the pick        *)
(* numbers of one attempt are distinct.                                    *)
RECURSIVE ProcessTeams(_, _, _, _)
ProcessTeams(cfg, roundNumber, teams, inProgress) ==
  LET finished == {FinishAttempt(s.picks) : s \in {x \in inProgress : x.remaining = {}}}
      steps == UNION {
                 {[remaining |-> s.remaining \ {t},
                   step |-> ProcessTeam(cfg, roundNumber, teams[t],
                                        s.assignedPositions, s.picks, random)] :
                    <<t, random>> \in s.remaining \X Draws}
                 : s \in inProgress}
      abandoned == {AttemptAbandoned(x.step.picks, x.step.error) :
                      x \in {y \in steps : y.step.thrown}}
      further == {[remaining |-> x.remaining,
                   assignedPositions |-> x.step.assignedPositions,
                   picks |-> SortByPickNumber(x.step.picks)] :
                    x \in {y \in steps : ~y.step.thrown}}
  IN finished \cup abandoned
       \cup (IF further = {} THEN {}
             ELSE ProcessTeams(cfg, roundNumber, teams, further))

(* assignedPositions kept from the call before: in a round after the first *)
(* every position is still marked assigned.                                *)
AttemptOutcomes_AssignedKept(cfg, roundNumber, order) ==
  IF TeamLookupFails(cfg, order)
  THEN {AttemptAbandoned(<<>>, "TypeError")}
  ELSE ProcessTeams(cfg, roundNumber, TeamsOf(cfg, order),
                    {[remaining |-> DOMAIN order,
                      assignedPositions |-> IF roundNumber > 1
                                            THEN 1..cfg.numberOfTeams ELSE {},
                      picks |-> <<>>]})

(* The body of the try block (lines 242-298), picks and assignedPositions  *)
(* created empty: every result an attempt can have.                        *)
AttemptOutcomes(cfg, roundNumber, order) ==
  IF TeamLookupFails(cfg, order)
  THEN {AttemptAbandoned(<<>>, "TypeError")}
  ELSE ProcessTeams(cfg, roundNumber, TeamsOf(cfg, order),
                    {[remaining |-> DOMAIN order, assignedPositions |-> {},
                      picks |-> <<>>]})

(* The fallback without the sort of line 311. *)
FallbackPicks_Unsorted(cfg, roundNumber, order) ==
  [i \in DOMAIN order |->
     [round |-> roundNumber,
      pickNumber |-> order[i],
      teamId |-> cfg.teams[order[i]].id,
      originalPosition |-> order[i],
      movement |-> 0]]

(* The fallback of lines 305-311. *)
FallbackPicks(cfg, roundNumber, order) ==
  SortByPickNumber([i \in DOMAIN order |->
                      [round |-> roundNumber,
                       pickNumber |-> order[i],
                       teamId |-> cfg.teams[order[i]].id,
                       originalPosition |-> order[i],
                       movement |-> 0]])

(* Every result a call runLotteryRound(cfg, roundNumber, order) can have:   *)
(* the picks of an attempt that returns, and, when an attempt can fail,    *)
(* the result of lines 305-311 (the picks of the fallback, or the error of *)
(* the team lookup of line 308).                                           *)
RoundResults(cfg, roundNumber, order) ==
  LET outcomes == AttemptOutcomes(cfg, roundNumber, order)
  IN {[thrown |-> FALSE, picks |-> o.picks] : o \in {x \in outcomes : x.returned}}
       \cup (IF \A o \in outcomes : o.returned THEN {}
             ELSE IF TeamLookupFails(cfg, order)
               THEN {[thrown |-> TRUE, picks |-> <<>>]}
             ELSE {[thrown |-> FALSE, picks |-> FallbackPicks(cfg, roundNumber, order)]})

(* A result with its picks labelled with another round number. *)
WithRound(result, roundNumber) ==
  [result EXCEPT !.picks = [i \in DOMAIN @ |-> [@[i] EXCEPT !.round = roundNumber]]]

(* ---------------- configurations and initial orders ---------------- *)
(* Percentages of defaultConfig.weightedSystem (lines 22-33), by position, *)
(* in tenths of a percent.                                                 *)
DefaultPercentage == <<31, 35, 47, 62, 62, 79, 105, 141, 188, 250>>

(* One entry per position, listed from the worst position down to 1 as in  *)
(* defaultConfig.                                                          *)
FullOdds(n) ==
  [i \in 1..n |-> [position |-> n + 1 - i,
                   percentage |-> DefaultPercentage[n + 1 - i]]]

(* The same table with every percentage 0. *)
ZeroOdds(n) ==
  [i \in 1..n |-> [position |-> n + 1 - i, percentage |-> 0]]

(* The entry of position p left out: n - 1 entries. *)
OddsMissing(n, p) ==
  SelectSeq(FullOdds(n), LAMBDA odds : odds.position # p)

(* The entry of position p overwritten by a copy of its neighbour's entry: *)
(* n entries, none for p.                                                  *)
OddsDuplicated(n, p) ==
  LET q == (p % n) + 1
  IN [i \in 1..n |-> IF FullOdds(n)[i].position = p
                     THEN [position |-> q, percentage |-> DefaultPercentage[q]]
                     ELSE FullOdds(n)[i]]

TeamList(len) == [i \in 1..len |-> [id |-> i]]

Identity(n) == [i \in 1..n |-> i]

Reversed(n) == [i \in 1..n |-> n + 1 - i]

Rotated(n) == [i \in 1..n |-> (i % n) + 1]

AllFirst(n) == [i \in 1..n |-> 1]

PermutationOrders(n) == {Identity(n), Reversed(n), Rotated(n)}

IsPermutation(order, n) ==
  /\ Len(order) = n
  /\ \A p \in 1..n : \E i \in DOMAIN order : order[i] = p

OddsWellFormed(cfg) ==
  /\ Len(cfg.weightedSystem) = cfg.numberOfTeams
  /\ \A p \in 1..cfg.numberOfTeams :
       Cardinality({i \in DOMAIN cfg.weightedSystem :
                      cfg.weightedSystem[i].position = p}) = 1

TeamsComplete(cfg) == Len(cfg.teams) = cfg.numberOfTeams

WellFormed(cfg) == cfg.numberOfTeams >= 1 /\ OddsWellFormed(cfg) /\ TeamsComplete(cfg)

Config(n, r, teamCount, odds) ==
  [numberOfTeams |-> n, numberOfRounds |-> r,
   teams |-> TeamList(teamCount), weightedSystem |-> odds]

(* The calls explored: every well-formed configuration with each order     *)
(* (permutations, a repeated position, a wrong length), and every          *)
(* configuration with one defect with the identity and reversed orders.    *)
Scenarios ==
  UNION {
    LET good == {Config(n, r, n, FullOdds(n)), Config(n, r, n, ZeroOdds(n))}
        badOdds == {Config(n, r, n, OddsMissing(n, p)) : p \in 1..n}
                   \cup {Config(n, r, n, OddsDuplicated(n, p)) : p \in 1..n}
        badTeams == {Config(n, r, n - 1, FullOdds(n))}
        orders == PermutationOrders(n)
                  \cup {AllFirst(n), Identity(n - 1), Append(Identity(n), 1)}
    IN (good \X orders) \cup ((badOdds \cup badTeams) \X {Identity(n), Reversed(n)})
    : <<n, r>> \in {nr \in (1..MaxTeams) \X (1..MaxRounds) : nr[1] * nr[2] <= MaxPicks}}

(* ---------------- Database (lines 1-109) ---------------- *)
(* Bounds: the number of Database calls made in one behaviour and the      *)
(* number of distinct lottery years.                                       *)
MaxOps == 2
MaxYears == 2

(* The two callers whose Database calls may interleave. *)
Procs == {"A", "B"}

Years == 1..MaxYears

(* The JavaScript value undefined for the optional initialOrder (no saved  *)
(* order holds a negative entry).                                          *)
Undefined == <<-1>>

(* database.json does not exist; database.json while a writeFile is under  *)
(* way (truncated, not yet a complete JSON text).                          *)
Missing == [state |-> "ENOENT"]

Torn == [state |-> "partial"]

(* Reading the optional property of a config object. *)
InitialOrderOf(c) ==
  IF "initialOrder" \in DOMAIN c THEN c.initialOrder ELSE Undefined

(* defaultConfig (lines 7-36) and defaultDatabase (lines 38-41): of the    *)
(* config only pickDelaySeconds and the optional initialOrder are kept.    *)
defaultConfig == [pickDelaySeconds |-> 3]

defaultDatabase == [config |-> defaultConfig, lotteries |-> <<>>]

(* JSON.stringify(data, null, 2), line 61: a property whose value is       *)
(* undefined is left out of the text.                                      *)
Stringify(data) ==
  [state |-> "json",
   config |-> IF InitialOrderOf(data.config) = Undefined
              THEN [pickDelaySeconds |-> data.config.pickDelaySeconds]
              ELSE [pickDelaySeconds |-> data.config.pickDelaySeconds,
                    initialOrder |-> data.config.initialOrder],
   lotteries |-> data.lotteries]

(* JSON.parse(data), line 57, of a complete text. *)
Parse(text) == [config |-> text.config, lotteries |-> text.lotteries]

(* What a Database call run on its own reads from the file: read() creates *)
(* a missing file with defaultDatabase first (lines 44-52).                *)
StoreOf(f) == IF f.state = "json" THEN Parse(f) ELSE defaultDatabase

(* updateConfig, line 72: db.config = config. *)
UpdateConfigIn_Merge(db, newConfig) ==
  [db EXCEPT !.config =
     IF InitialOrderOf(newConfig) = Undefined /\ InitialOrderOf(db.config) # Undefined
     THEN [pickDelaySeconds |-> newConfig.pickDelaySeconds,
           initialOrder |-> db.config.initialOrder]
     ELSE newConfig]

UpdateConfigIn(db, newConfig) == [db EXCEPT !.config = newConfig]

(* saveLottery, lines 90-94: filter out the year, push the lottery. *)
SaveLotteryInto_NoFilter(db, lottery) ==
  [db EXCEPT !.lotteries = Append(@, lottery)]

SaveLotteryInto(db, lottery) ==
  [db EXCEPT !.lotteries =
     Append(SelectSeq(@, LAMBDA l : l.year # lottery.year), lottery)]

(* deleteLottery, line 101: filter out the year. *)
DeleteLotteryFrom_ClearsAll(db, year) ==
  [db EXCEPT !.lotteries = <<>>]

DeleteLotteryFrom(db, year) ==
  [db EXCEPT !.lotteries = SelectSeq(@, LAMBDA l : l.year # year)]

(* A caller that has made no Database call. *)
NoProc ==
  [op |-> "none", pc |-> "idle", config |-> defaultConfig,
   lottery |-> [id |-> 0, year |-> 0], year |-> 0,
   text |-> Missing, result |-> defaultConfig]

(* No Database call has been made: started counts the calls, overlapped    *)
(* tells whether a call was started while another was in flight, raced     *)
(* whether one was started while another had not yet begun its write,      *)
(* before is                                                               *)
(* the store at the start of the latest call, lastConfig and lastSaved are *)
(* the config last written and, per year, the lottery last saved and not   *)
(* deleted since (as a list of at most one lottery).                       *)
NoHistory ==
  [started |-> 0, overlapped |-> FALSE, raced |-> FALSE, before |-> defaultDatabase,
   lastConfig |-> defaultConfig, lastSaved |-> [y \in Years |-> <<>>]]

DatabaseIdle ==
  /\ file = Missing
  /\ procs = [p \in Procs |-> NoProc]
  /\ history = NoHistory

(* ---------------- the state machine ---------------- *)
NoAttempt == [returned |-> FALSE, processed |-> 0, error |-> ""]

NoError == [kind |-> "none", given |-> 0, expected |-> 0, round |-> 0, errors |-> <<>>]

(* No exported function has been called on its own. *)
NoCall ==
  [name |-> "none", availablePositions |-> <<>>, originalPosition |-> 0,
   totalTeams |-> 0, random |-> 0, picks |-> <<>>, result |-> <<>>]

(* No try block of runLotteryRound is being followed: pc is the place in   *)
(* the block, remaining the indices of the teams the for loop has not      *)
(* taken yet, assignedPositions and picks the block's two locals, team the *)
(* team of the latest iteration and error the message of the error caught. *)
NoTry ==
  [pc |-> "idle", remaining |-> {}, assignedPositions |-> {}, picks |-> <<>>,
   team |-> [originalPosition |-> 0, teamId |-> 0], error |-> ""]

Init ==
  /\ \E sc \in Scenarios : config = sc[1] /\ initialOrder = sc[2]
  /\ pc = "start"
  /\ round = 0
  /\ attempt = 0
  /\ lastAttempt = NoAttempt
  /\ roundPicks = <<>>
  /\ path = "none"
  /\ allPicks = <<>>
  /\ error = NoError
  /\ roundCalls = 0
  /\ call = NoCall
  /\ tryBlock = NoTry
  /\ DatabaseIdle

(* The check written initialOrder.length < config.numberOfTeams. *)
LengthCheck_OnlyShort ==
  /\ pc = "start"
  /\ IF Len(initialOrder) < config.numberOfTeams
     THEN /\ pc' = "error"
          /\ error' = [NoError EXCEPT !.kind = "LengthMismatch",
                                      !.given = Len(initialOrder),
                                      !.expected = config.numberOfTeams]
          /\ round' = round
     ELSE /\ pc' = "roundLoop"
          /\ round' = 1
          /\ error' = error
  /\ allPicks' = <<>>
  /\ UNCHANGED <<dbVars, tryBlock, call, config, initialOrder, attempt, lastAttempt, roundPicks, path, roundCalls>>

(* runCompleteLottery, lines 318-326: the length check. *)
LengthCheck ==
  /\ pc = "start"
  /\ IF Len(initialOrder) # config.numberOfTeams
     THEN /\ pc' = "error"
          /\ error' = [NoError EXCEPT !.kind = "LengthMismatch",
                                      !.given = Len(initialOrder),
                                      !.expected = config.numberOfTeams]
          /\ round' = round
     ELSE /\ pc' = "roundLoop"
          /\ round' = 1
          /\ error' = error
  /\ allPicks' = <<>>
  /\ UNCHANGED <<dbVars, tryBlock, call, config, initialOrder, attempt, lastAttempt, roundPicks, path, roundCalls>>

(* The loop condition written round < config.numberOfRounds. *)
RoundLoop_OneRoundLess ==
  /\ pc = "roundLoop"
  /\ IF round < config.numberOfRounds
     THEN /\ pc' = "attemptLoop"
          /\ attempt' = 0
          /\ lastAttempt' = NoAttempt
          /\ roundCalls' = roundCalls + 1
     ELSE /\ pc' = "done"
          /\ UNCHANGED <<attempt, lastAttempt, roundCalls>>
  /\ roundPicks' = <<>>
  /\ path' = "none"
  /\ UNCHANGED <<dbVars, tryBlock, call, config, initialOrder, round, allPicks, error>>

(* The for loop head of line 326: call runLotteryRound (lines 235-236) or  *)
(* return allPicks (line 338).                                             *)
RoundLoop ==
  /\ pc = "roundLoop"
  /\ IF round <= config.numberOfRounds
     THEN /\ pc' = "attemptLoop"
          /\ attempt' = 0
          /\ lastAttempt' = NoAttempt
          /\ roundCalls' = roundCalls + 1
     ELSE /\ pc' = "done"
          /\ UNCHANGED <<attempt, lastAttempt, roundCalls>>
  /\ roundPicks' = <<>>
  /\ path' = "none"
  /\ UNCHANGED <<dbVars, tryBlock, call, config, initialOrder, round, allPicks, error>>

(* The attempt++ of line 239 left out. *)
Attempt_NoIncrement ==
  /\ pc = "attemptLoop"
  /\ attempt < MAX_ATTEMPTS
  /\ attempt' = attempt
  /\ \E outcome \in AttemptOutcomes(config, round, initialOrder) :
       /\ lastAttempt' = [returned |-> outcome.returned,
                          processed |-> outcome.processed,
                          error |-> outcome.error]
       /\ IF outcome.returned
          THEN /\ roundPicks' = outcome.picks
               /\ path' = "attempt"
               /\ pc' = "validate"
          ELSE UNCHANGED <<roundPicks, path, pc>>
  /\ UNCHANGED <<dbVars, tryBlock, call, config, initialOrder, round, allPicks, error, roundCalls>>

(* One iteration of the while loop of lines 238-302. *)
Attempt ==
  /\ pc = "attemptLoop"
  /\ attempt < MAX_ATTEMPTS
  /\ attempt' = attempt + 1
  /\ \E outcome \in AttemptOutcomes(config, round, initialOrder) :
       /\ lastAttempt' = [returned |-> outcome.returned,
                          processed |-> outcome.processed,
                          error |-> outcome.error]
       /\ IF outcome.returned
          THEN /\ roundPicks' = outcome.picks
               /\ path' = "attempt"
               /\ pc' = "validate"
          ELSE UNCHANGED <<roundPicks, path, pc>>
  /\ UNCHANGED <<dbVars, tryBlock, call, config, initialOrder, round, allPicks, error, roundCalls>>

(* The fallback taken one attempt before the ceiling. *)
Fallback_OneEarly ==
  /\ pc = "attemptLoop"
  /\ ~(attempt < MAX_ATTEMPTS - 1)
  /\ IF TeamLookupFails(config, initialOrder)
     THEN /\ pc' = "error"
          /\ error' = [NoError EXCEPT !.kind = "TypeError", !.round = round]
          /\ UNCHANGED <<roundPicks, path>>
     ELSE /\ roundPicks' = FallbackPicks(config, round, initialOrder)
          /\ path' = "fallback"
          /\ pc' = "validate"
          /\ error' = error
  /\ UNCHANGED <<dbVars, tryBlock, call, config, initialOrder, round, attempt, lastAttempt, allPicks, roundCalls>>

(* Lines 304-311: the loop has ended without a return. *)
Fallback ==
  /\ pc = "attemptLoop"
  /\ ~(attempt < MAX_ATTEMPTS)
  /\ IF TeamLookupFails(config, initialOrder)
     THEN /\ pc' = "error"
          /\ error' = [NoError EXCEPT !.kind = "TypeError", !.round = round]
          /\ UNCHANGED <<roundPicks, path>>
     ELSE /\ roundPicks' = FallbackPicks(config, round, initialOrder)
          /\ path' = "fallback"
          /\ pc' = "validate"
          /\ error' = error
  /\ UNCHANGED <<dbVars, tryBlock, call, config, initialOrder, round, attempt, lastAttempt, allPicks, roundCalls>>

(* The round put in front of the rounds collected so far. *)
Validate_PrependsRound ==
  /\ pc = "validate"
  /\ LET validation == validateDraftResults(roundPicks)
     IN IF ~validation.valid
        THEN /\ pc' = "error"
             /\ error' = [NoError EXCEPT !.kind = "InvalidLotteryResults",
                                         !.round = round,
                                         !.errors = validation.errors]
             /\ UNCHANGED <<allPicks, round>>
        ELSE /\ allPicks' = roundPicks \o allPicks
             /\ round' = round + 1
             /\ pc' = "roundLoop"
             /\ error' = error
  /\ UNCHANGED <<dbVars, tryBlock, call, config, initialOrder, attempt, lastAttempt, roundPicks, path, roundCalls>>

(* The next round drawn from the outcome of this round: the original      *)
(* positions in pick order become the initial order.                       *)
Validate_ChainsRounds ==
  /\ pc = "validate"
  /\ LET validation == validateDraftResults(roundPicks)
     IN IF ~validation.valid
        THEN /\ pc' = "error"
             /\ error' = [NoError EXCEPT !.kind = "InvalidLotteryResults",
                                         !.round = round,
                                         !.errors = validation.errors]
             /\ UNCHANGED <<allPicks, round, initialOrder>>
        ELSE /\ allPicks' = allPicks \o roundPicks
             /\ round' = round + 1
             /\ pc' = "roundLoop"
             /\ error' = error
             /\ initialOrder' = [i \in DOMAIN roundPicks |-> roundPicks[i].originalPosition]
  /\ UNCHANGED <<dbVars, tryBlock, call, config, attempt, lastAttempt, roundPicks, path, roundCalls>>

(* Lines 329-335: validate the round, append it, next round. *)
Validate ==
  /\ pc = "validate"
  /\ LET validation == validateDraftResults(roundPicks)
     IN IF ~validation.valid
        THEN /\ pc' = "error"
             /\ error' = [NoError EXCEPT !.kind = "InvalidLotteryResults",
                                         !.round = round,
                                         !.errors = validation.errors]
             /\ UNCHANGED <<allPicks, round>>
        ELSE /\ allPicks' = allPicks \o roundPicks
             /\ round' = round + 1
             /\ pc' = "roundLoop"
             /\ error' = error
  /\ UNCHANGED <<dbVars, tryBlock, call, config, initialOrder, attempt, lastAttempt, roundPicks, path, roundCalls>>

Next == LengthCheck \/ RoundLoop \/ Attempt \/ Fallback \/ Validate

Spec == Init /\ [][Next]_vars

(* ---------------- the exported functions called on their own ---------------- *)
(* The position arrays handed to weightedRandomSelection: the positions    *)
(* not yet assigned, in ascending order as runLotteryRound builds them,    *)
(* and the same arrays in descending order.                                *)
RECURSIVE Ascending(_)
Ascending(S) ==
  IF S = {} THEN <<>>
  ELSE LET m == CHOOSE x \in S : \A y \in S : x <= y
       IN <<m>> \o Ascending(S \ {m})

RECURSIVE Descending(_)
Descending(S) ==
  IF S = {} THEN <<>>
  ELSE LET m == CHOOSE x \in S : \A y \in S : x >= y
       IN <<m>> \o Descending(S \ {m})

PositionLists ==
  {Ascending(S) : S \in SUBSET (1..MaxTeams)}
    \cup {Descending(S) : S \in SUBSET (1..MaxTeams)}

(* The configurations whose odds table is handed to the function: every    *)
(* odds table of the scenarios, with a complete team list.                 *)
CallConfigs ==
  {c \in {sc[1] : sc \in Scenarios} : c.numberOfRounds = 1 /\ TeamsComplete(c)}

CallInit ==
  /\ \E c \in CallConfigs :
       config = c /\ initialOrder = Identity(c.numberOfTeams)
  /\ pc = "start"
  /\ round = 0
  /\ attempt = 0
  /\ lastAttempt = NoAttempt
  /\ roundPicks = <<>>
  /\ path = "none"
  /\ allPicks = <<>>
  /\ error = NoError
  /\ roundCalls = 0
  /\ call = NoCall
  /\ tryBlock = NoTry
  /\ DatabaseIdle

(* getValidPositionRange(originalPosition, config.numberOfTeams). *)
RangeCall ==
  /\ call.name = "none"
  /\ \E originalPosition \in 1..config.numberOfTeams :
       call' = [NoCall EXCEPT
                  !.name = "getValidPositionRange",
                  !.originalPosition = originalPosition,
                  !.totalTeams = config.numberOfTeams,
                  !.result = getValidPositionRange(originalPosition,
                                                   config.numberOfTeams)]
  /\ UNCHANGED <<config, initialOrder, pc, round, attempt, lastAttempt,
                 roundPicks, path, allPicks, error, roundCalls, dbVars, tryBlock>>

(* weightedRandomSelection(availablePositions, config.weightedSystem,      *)
(* originalPosition), with the value random/DrawDen of Math.random().      *)
SelectionCall ==
  /\ call.name = "none"
  /\ \E availablePositions \in PositionLists, originalPosition \in 1..MaxTeams,
        random \in Draws :
       call' = [NoCall EXCEPT
                  !.name = "weightedRandomSelection",
                  !.availablePositions = availablePositions,
                  !.originalPosition = originalPosition,
                  !.totalTeams = Len(config.weightedSystem),
                  !.random = random,
                  !.result = weightedRandomSelection(availablePositions,
                               config.weightedSystem, originalPosition, random)]
  /\ UNCHANGED <<config, initialOrder, pc, round, attempt, lastAttempt,
                 roundPicks, path, allPicks, error, roundCalls, dbVars, tryBlock>>

(* The pick lists handed to validateDraftResults: a round of up to         *)
(* numberOfTeams picks, the picks in ascending or descending order of the  *)
(* original position, every movement none, at the cap or one beyond the   *)
(* cap, upwards and downwards; the pick numbers either agree with the      *)
(* movements or are all 1.                                                 *)
Movements ==
  {0 - MAX_MOVEMENT - 1, 0 - MAX_MOVEMENT, 0, MAX_MOVEMENT, MAX_MOVEMENT + 1}

PickLists(n) ==
  {[i \in 1..len |->
      LET originalPosition == IF descending THEN len + 1 - i ELSE i
      IN [round |-> 1,
          pickNumber |-> IF agreeing THEN originalPosition + movements[i] ELSE 1,
          teamId |-> originalPosition,
          originalPosition |-> originalPosition,
          movement |-> movements[i]]]
   : <<len, movements, descending, agreeing>> \in
       UNION {{<<l, m, d, a>> : m \in [1..l -> Movements], d \in BOOLEAN,
                                a \in BOOLEAN} : l \in 0..n}}

(* validateDraftResults(picks). *)
ValidateCall ==
  /\ call.name = "none"
  /\ \E picks \in PickLists(config.numberOfTeams) :
       call' = [NoCall EXCEPT
                  !.name = "validateDraftResults",
                  !.picks = picks,
                  !.result = validateDraftResults(picks)]
  /\ UNCHANGED <<config, initialOrder, pc, round, attempt, lastAttempt,
                 roundPicks, path, allPicks, error, roundCalls, dbVars, tryBlock>>

CallNext == RangeCall \/ SelectionCall \/ ValidateCall

CallSpec == CallInit /\ [][CallNext]_vars

(* ---------------- the Database calls ---------------- *)
(* The lotteries of one year in a store, in stored order. *)
LotteriesOfYear(db, y) == SelectSeq(db.lotteries, LAMBDA l : l.year = y)

(* The lottery engine is not running. *)
LotteryIdle ==
  /\ config = Config(1, 1, 1, FullOdds(1))
  /\ initialOrder = Identity(1)
  /\ pc = "start"
  /\ round = 0
  /\ attempt = 0
  /\ lastAttempt = NoAttempt
  /\ roundPicks = <<>>
  /\ path = "none"
  /\ allPicks = <<>>
  /\ error = NoError
  /\ roundCalls = 0
  /\ call = NoCall
  /\ tryBlock = NoTry

(* The stores the calls start from: no file, the default database, and a   *)
(* database with a saved order and one lottery.                            *)
InitialStores ==
  {Missing,
   Stringify(defaultDatabase),
   Stringify([config |-> [pickDelaySeconds |-> 3, initialOrder |-> <<2, 1>>],
              lotteries |-> <<[id |-> 0, year |-> 1]>>])}

DbInit ==
  /\ LotteryIdle
  /\ file \in InitialStores
  /\ procs = [p \in Procs |-> NoProc]
  /\ history = [NoHistory EXCEPT
                  !.before = StoreOf(file),
                  !.lastConfig = StoreOf(file).config,
                  !.lastSaved = [y \in Years |-> LotteriesOfYear(StoreOf(file), y)]]

InFlight(p) == procs[p].pc \notin {"idle", "done", "failed"}

(* The configs handed to updateConfig by call number k: without the        *)
(* optional initialOrder, with initialOrder set to undefined, and with a   *)
(* saved order.                                                            *)
ConfigsOfCall(k) ==
  {[pickDelaySeconds |-> k],
   [pickDelaySeconds |-> k, initialOrder |-> Undefined],
   [pickDelaySeconds |-> k, initialOrder |-> <<1, 2>>]}

(* A caller starts getConfig(), updateConfig(c), saveLottery(l) or         *)
(* deleteLottery(y); the call runs up to its first await.                  *)
StartCall(p) ==
  /\ ~InFlight(p)
  /\ history.started < MaxOps
  /\ LET k == history.started + 1
     IN /\ \/ procs' = [procs EXCEPT ![p] =
                          [NoProc EXCEPT !.op = "getConfig", !.pc = "access"]]
           \/ \E c \in ConfigsOfCall(k) :
                procs' = [procs EXCEPT ![p] =
                            [NoProc EXCEPT !.op = "updateConfig", !.pc = "access",
                                           !.config = c]]
           \/ \E y \in Years :
                procs' = [procs EXCEPT ![p] =
                            [NoProc EXCEPT !.op = "saveLottery", !.pc = "access",
                                           !.lottery = [id |-> k, year |-> y]]]
           \/ \E y \in Years :
                procs' = [procs EXCEPT ![p] =
                            [NoProc EXCEPT !.op = "deleteLottery", !.pc = "access",
                                           !.year = y]]
        /\ history' = [history EXCEPT
                         !.started = k,
                         !.overlapped = @ \/ \E q \in Procs \ {p} : InFlight(q),
                         !.raced = @ \/ \E q \in Procs \ {p} :
                                           InFlight(q) /\ procs[q].pc # "writing",
                         !.before = StoreOf(file)]
  /\ UNCHANGED <<file, lotteryVars>>

(* ensureDbExists, lines 44-47: fs.access resolves or rejects. *)
Access(p) ==
  /\ procs[p].pc = "access"
  /\ procs' = [procs EXCEPT ![p].pc =
                 IF file = Missing THEN "create" ELSE "readFile"]
  /\ UNCHANGED <<file, history, lotteryVars>>

(* ensureDbExists, lines 48-50: mkdir, then writeFile of defaultDatabase   *)
(* begins and truncates the file.                                          *)
CreateBegin(p) ==
  /\ procs[p].pc = "create"
  /\ file' = Torn
  /\ procs' = [procs EXCEPT ![p].pc = "creating"]
  /\ UNCHANGED <<history, lotteryVars>>

(* The writeFile of line 50 completes. *)
CreateEnd(p) ==
  /\ procs[p].pc = "creating"
  /\ file' = Stringify(defaultDatabase)
  /\ procs' = [procs EXCEPT ![p].pc = "readFile"]
  /\ UNCHANGED <<history, lotteryVars>>

(* read, lines 56-57: readFile and JSON.parse; then the caller's code up   *)
(* to its next await: getConfig returns db.config, the writers change db   *)
(* and hand its JSON text to fs.writeFile (lines 60-62).  A text that is   *)
(* not complete makes JSON.parse throw.                                    *)
ReadFile(p) ==
  /\ procs[p].pc = "readFile"
  /\ IF file.state # "json"
     THEN procs' = [procs EXCEPT ![p].pc = "failed"]
     ELSE LET db == Parse(file)
              me == procs[p]
          IN procs' = [procs EXCEPT ![p] =
               IF me.op = "getConfig"
                 THEN [me EXCEPT !.pc = "done", !.result = db.config]
               ELSE IF me.op = "updateConfig"
                 THEN [me EXCEPT !.pc = "write",
                                 !.text = Stringify(UpdateConfigIn(db, me.config))]
               ELSE IF me.op = "saveLottery"
                 THEN [me EXCEPT !.pc = "write",
                                 !.text = Stringify(SaveLotteryInto(db, me.lottery))]
               ELSE [me EXCEPT !.pc = "write",
                               !.text = Stringify(DeleteLotteryFrom(db, me.year))]]
  /\ UNCHANGED <<file, history, lotteryVars>>

(* write, line 61: fs.writeFile begins and truncates the file. *)
WriteBegin(p) ==
  /\ procs[p].pc = "write"
  /\ file' = Torn
  /\ procs' = [procs EXCEPT ![p].pc = "writing"]
  /\ UNCHANGED <<history, lotteryVars>>

(* The writeFile of line 61 completes and the call returns. *)
WriteEnd(p) ==
  /\ procs[p].pc = "writing"
  /\ file' = procs[p].text
  /\ procs' = [procs EXCEPT ![p].pc = "done"]
  /\ history' = [history EXCEPT
       !.lastConfig = IF procs[p].op = "updateConfig" THEN procs[p].config ELSE @,
       !.lastSaved = IF procs[p].op = "saveLottery"
                       THEN [@ EXCEPT ![procs[p].lottery.year] = <<procs[p].lottery>>]
                     ELSE IF procs[p].op = "deleteLottery"
                       THEN [@ EXCEPT ![procs[p].year] = <<>>]
                     ELSE @]
  /\ UNCHANGED lotteryVars

DbNext ==
  \/ \E p \in Procs : StartCall(p)
  \/ \E p \in Procs : Access(p)
  \/ \E p \in Procs : CreateBegin(p)
  \/ \E p \in Procs : CreateEnd(p)
  \/ \E p \in Procs : ReadFile(p)
  \/ \E p \in Procs : WriteBegin(p)
  \/ \E p \in Procs : WriteEnd(p)

DbSpec == DbInit /\ [][DbNext]_vars

(* ---------------- one try block of runLotteryRound ---------------- *)
(* A table with one entry more than there are teams. *)
OddsExtra(n) == FullOdds(n + 1)

(* The calls runLotteryRound(config, 1, initialOrder) followed statement   *)
(* by statement: the one-round scenarios, and every number of teams with a *)
(* table that is one entry too long.                                       *)
TryScenarios ==
  {sc \in Scenarios : sc[1].numberOfRounds = 1}
    \cup UNION {{Config(n, 1, n, OddsExtra(n))} \X {Identity(n), Reversed(n)}
                : n \in 1..MaxTeams}

(* An iteration of the while loop has begun (lines 238-241). *)
TryInit ==
  /\ \E sc \in TryScenarios : config = sc[1] /\ initialOrder = sc[2]
  /\ pc = "attemptLoop"
  /\ round = 1
  /\ attempt = 1
  /\ lastAttempt = NoAttempt
  /\ roundPicks = <<>>
  /\ path = "none"
  /\ allPicks = <<>>
  /\ error = NoError
  /\ roundCalls = 1
  /\ call = NoCall
  /\ tryBlock = [NoTry EXCEPT !.pc = "try"]
  /\ DatabaseIdle

(* Lines 242-252: picks and assignedPositions are created empty, the teams *)
(* are looked up (a TypeError when config.teams is too short) and          *)
(* shuffled: the for loop will take them in any order.                     *)
TryEnter ==
  /\ tryBlock.pc = "try"
  /\ tryBlock' = IF TeamLookupFails(config, initialOrder)
                 THEN [NoTry EXCEPT !.pc = "caught", !.error = "TypeError"]
                 ELSE [NoTry EXCEPT !.pc = "loop", !.remaining = DOMAIN initialOrder]
  /\ UNCHANGED <<config, initialOrder, pc, round, attempt, lastAttempt,
                 roundPicks, path, allPicks, error, roundCalls, call, dbVars>>

(* One iteration of the for loop (lines 255-290) for the next team of      *)
(* shuffledTeams and one value of Math.random().                           *)
TryTeam ==
  /\ tryBlock.pc = "loop"
  /\ \E t \in tryBlock.remaining, random \in Draws :
       LET team == TeamsOf(config, initialOrder)[t]
           step == ProcessTeam(config, round, team, tryBlock.assignedPositions,
                               tryBlock.picks, random)
       IN tryBlock' =
            IF step.thrown
            THEN [tryBlock EXCEPT !.pc = "caught", !.remaining = @ \ {t},
                                  !.team = team, !.error = step.error]
            ELSE [tryBlock EXCEPT !.remaining = @ \ {t}, !.team = team,
                                  !.assignedPositions = step.assignedPositions,
                                  !.picks = step.picks]
  /\ UNCHANGED <<config, initialOrder, pc, round, attempt, lastAttempt,
                 roundPicks, path, allPicks, error, roundCalls, call, dbVars>>

(* Lines 292-298 after the last team: the every() check, and the sorted    *)
(* picks returned when it passes.                                          *)
TryFinish ==
  /\ tryBlock.pc = "loop"
  /\ tryBlock.remaining = {}
  /\ LET outcome == FinishAttempt(tryBlock.picks)
     IN tryBlock' = [tryBlock EXCEPT
                       !.pc = IF outcome.returned THEN "returned" ELSE "notValid",
                       !.picks = outcome.picks]
  /\ UNCHANGED <<config, initialOrder, pc, round, attempt, lastAttempt,
                 roundPicks, path, allPicks, error, roundCalls, call, dbVars>>

TryNext == TryEnter \/ TryTeam \/ TryFinish

TrySpec == TryInit /\ [][TryNext]_vars

TypeOK ==
  /\ pc \in {"start", "roundLoop", "attemptLoop", "validate", "done", "error"}
  /\ attempt \in 0..MAX_ATTEMPTS
  /\ round \in 0..(MaxRounds + 1)
  /\ call.name \in {"none", "getValidPositionRange", "weightedRandomSelection",
                   "validateDraftResults"}

(* ---------------- properties ---------------- *)
N == config.numberOfTeams

R == config.numberOfRounds

(* The picks handed back so far: the round that runLotteryRound has just   *)
(* returned and the rounds already appended by runCompleteLottery.         *)
ReturnedPicks == Range(roundPicks) \cup Range(allPicks)

(* The odds table has no entry for an original position of the order. *)
OddsEntryMissing ==
  \E i \in DOMAIN initialOrder : FindOdds(config.weightedSystem, initialOrder[i]) = 0

(* C1: for a configuration with N teams and one odds entry per position    *)
(* and an initial order that is a permutation of 1..N, every pick returned *)
(* by runLotteryRound, and so by runCompleteLottery, has                   *)
(* |pickNumber - originalPosition| <= 2 and |movement| <= 2, on the        *)
(* successful path and on the fallback path.                               *)
C1_MovementWithinTwo ==
  (WellFormed(config) /\ IsPermutation(initialOrder, N)) =>
    \A pick \in ReturnedPicks :
      /\ Abs(pick.pickNumber - pick.originalPosition) <= 2
      /\ Abs(pick.movement) <= 2

C1_Witness ==
  /\ WellFormed(config) /\ IsPermutation(initialOrder, N)
  /\ pc = "done"
  /\ \E pick \in Range(allPicks) : pick.movement = -2
  /\ \E pick \in Range(allPicks) : pick.movement = 2

(* C2: the list runLotteryRound returns for a permutation initial order    *)
(* has pickNumber = i at index i, for every i in 1..N, on the successful  *)
(* path and on the fallback path.                                          *)
C2_PickNumbersAreOneToN ==
  (pc = "validate" /\ IsPermutation(initialOrder, N)) =>
    /\ Len(roundPicks) = N
    /\ \A i \in 1..N : roundPicks[i].pickNumber = i

C2_Witness ==
  /\ pc = "validate" /\ IsPermutation(initialOrder, N)
  /\ initialOrder = Reversed(N)
  /\ path = "attempt"
  /\ \E i \in DOMAIN roundPicks : roundPicks[i].movement # 0

(* C3: runLotteryRound is total: for a well-formed configuration (N >= 1,  *)
(* one odds entry per position 1..N, one team per position 1..N), every    *)
(* round number and every initial order of length N over the positions     *)
(* 1..N, no error escapes the call.  The only error that can leave         *)
(* runLotteryRound is the TypeError of a failed team lookup in the         *)
(* fallback.                                                               *)
C3_RoundIsTotal ==
  (WellFormed(config) /\ Len(initialOrder) = N) =>
    /\ error.kind # "TypeError"
    /\ pc # "error"

C3_Witness ==
  /\ WellFormed(config) /\ Len(initialOrder) = N
  /\ ~IsPermutation(initialOrder, N)
  /\ pc = "validate"
  /\ path = "fallback"

(* C4: runCompleteLottery called with an initial order whose length is not *)
(* numberOfTeams raises an error that carries the given length and the     *)
(* expected number of teams, before any round is drawn: runLotteryRound is *)
(* never called and no pick is produced.                                   *)
C4_LengthMismatchRejected ==
  (Len(initialOrder) # N /\ pc # "start") =>
    /\ pc = "error"
    /\ error.kind = "LengthMismatch"
    /\ error.given = Len(initialOrder)
    /\ error.expected = N
    /\ roundCalls = 0
    /\ attempt = 0
    /\ roundPicks = <<>>
    /\ allPicks = <<>>

C4_Witness ==
  /\ Len(initialOrder) > N
  /\ pc = "error"
  /\ error.kind = "LengthMismatch"

(* C5: for a valid configuration (N teams, R rounds) and an initial order  *)
(* of length N, runCompleteLottery returns exactly N * R picks, the round  *)
(* numbers that occur are exactly 1..R, and each is carried by exactly N   *)
(* picks.                                                                  *)
C5_PicksPerRound ==
  /\ (WellFormed(config) /\ Len(initialOrder) = N) => pc # "error"
  /\ pc = "done" =>
       /\ Len(allPicks) = N * R
       /\ \A i \in DOMAIN allPicks : allPicks[i].round \in 1..R
       /\ \A r \in 1..R :
            Cardinality({i \in DOMAIN allPicks : allPicks[i].round = r}) = N

C5_Witness ==
  /\ WellFormed(config) /\ Len(initialOrder) = N
  /\ pc = "done"
  /\ R = 2
  /\ N = 3

(* The number of steps runCompleteLottery can still take: per round the    *)
(* loop head, at most MAX_ATTEMPTS attempts, the fallback and the          *)
(* validation.                                                             *)
StepsLeft ==
  LET perRound == MAX_ATTEMPTS + 3
  IN CASE pc = "start" -> R * perRound + 2
       [] pc = "roundLoop" -> (R + 1 - round) * perRound + 1
       [] pc = "attemptLoop" -> (R - round) * perRound + (MAX_ATTEMPTS - attempt) + 3
       [] pc = "validate" -> (R - round) * perRound + 2
       [] OTHER -> 0

(* Some step of Next can be taken: the guards of the five steps. *)
CanStep ==
  \/ pc \in {"start", "roundLoop", "validate"}
  \/ /\ pc = "attemptLoop"
     /\ attempt < MAX_ATTEMPTS => AttemptOutcomes(config, round, initialOrder) # {}

(* C6: every call of runLotteryRound terminates: the attempt counter grows *)
(* by exactly one per attempt, an attempt processes at most N teams, the   *)
(* call returns at the first successful attempt or else right after        *)
(* attempt number MAX_ATTEMPTS, and runCompleteLottery ends, after exactly *)
(* R round calls when it returns.  Termination: every step lowers          *)
(* StepsLeft, which is never negative, and a call that has neither         *)
(* returned nor thrown can always take a step.                             *)
C6_Terminates ==
  /\ [][/\ StepsLeft' < StepsLeft
        /\ attempt' \in {attempt, attempt + 1, 0}
        /\ (lastAttempt' # lastAttempt /\ pc = "attemptLoop") => attempt' = attempt + 1
        /\ (pc = "attemptLoop" /\ lastAttempt'.returned) => pc' = "validate"
        /\ (pc = "attemptLoop" /\ pc' # "attemptLoop" /\ ~lastAttempt'.returned)
             => attempt = MAX_ATTEMPTS]_vars
  /\ [](/\ StepsLeft >= 0
        /\ (pc \notin {"done", "error"}) => CanStep
        /\ attempt <= MAX_ATTEMPTS
        /\ lastAttempt.processed <= Len(initialOrder)
        /\ roundCalls <= R
        /\ (pc = "done" => roundCalls = R))

C6_Witness ==
  /\ pc = "done"
  /\ roundCalls = 2
  /\ attempt = MAX_ATTEMPTS
  /\ ~lastAttempt.returned

(* C7: no partial pick list is returned: the list runLotteryRound returns  *)
(* holds one pick for each entry of the initial order and comes whole from *)
(* one completed attempt (its positions all different) or whole from the   *)
(* fallback (every pick at its original position); nothing is kept from an *)
(* abandoned attempt.                                                      *)
C7_NoPartialPickList ==
  /\ pc = "attemptLoop" => roundPicks = <<>>
  /\ pc = "validate" =>
       /\ Len(roundPicks) = Len(initialOrder)
       /\ \A p \in 1..N :
            Cardinality({i \in DOMAIN roundPicks : roundPicks[i].originalPosition = p})
              = Cardinality({i \in DOMAIN initialOrder : initialOrder[i] = p})
       /\ path = "attempt" =>
            /\ lastAttempt.returned
            /\ lastAttempt.processed = Len(initialOrder)
            /\ \A i, j \in DOMAIN roundPicks :
                 i # j => roundPicks[i].pickNumber # roundPicks[j].pickNumber
       /\ path = "fallback" =>
            /\ ~lastAttempt.returned
            /\ \A i \in DOMAIN roundPicks :
                 roundPicks[i].pickNumber = roundPicks[i].originalPosition

C7_Witness ==
  /\ pc = "validate"
  /\ path = "attempt"
  /\ attempt > 1
  /\ N >= 2

(* C8 as stated: if the odds table has no entry for an original position   *)
(* of the initial order, every attempt fails, the ceiling is exhausted and *)
(* the round's result is the identity assignment; no error is thrown.      *)
C8_Original ==
  (OddsEntryMissing /\ TeamsComplete(config) /\ Len(initialOrder) = N) =>
    /\ ~lastAttempt.returned
    /\ pc # "error"
    /\ pc = "validate" =>
         /\ path = "fallback"
         /\ \A i \in DOMAIN roundPicks : roundPicks[i].movement = 0

(* C8 amended: with such a table (team list complete, order of length N)   *)
(* no error is thrown; when the table has fewer than N entries every       *)
(* attempt fails and the round's result is the identity assignment after   *)
(* MAX_ATTEMPTS attempts; an attempt can succeed only when the table still *)
(* has N entries, and its picks then respect the displacement cap.         *)
C8_MissingOddsEntry ==
  (OddsEntryMissing /\ TeamsComplete(config) /\ Len(initialOrder) = N) =>
    /\ pc # "error"
    /\ Len(config.weightedSystem) < N =>
         /\ ~lastAttempt.returned
         /\ pc = "validate" => path = "fallback"
    /\ (pc = "validate" /\ path = "fallback") =>
         /\ attempt = MAX_ATTEMPTS
         /\ \A i \in DOMAIN roundPicks :
              /\ roundPicks[i].movement = 0
              /\ roundPicks[i].pickNumber = roundPicks[i].originalPosition
    /\ (pc = "validate" /\ path = "attempt") =>
         /\ Len(config.weightedSystem) >= N
         /\ \A i \in DOMAIN roundPicks : Abs(roundPicks[i].movement) <= MAX_MOVEMENT

C8_Witness ==
  /\ OddsEntryMissing /\ TeamsComplete(config) /\ Len(initialOrder) = N
  /\ pc = "validate"
  /\ path = "attempt"
  /\ \E i \in DOMAIN roundPicks : roundPicks[i].movement # 0

C10_ValidationNeverFails ==
  /\ error.kind # "InvalidLotteryResults"
  /\ pc = "validate" => validateDraftResults(roundPicks).valid

C10_Witness ==
  /\ pc = "roundLoop"
  /\ round = 2
  /\ \E pick \in Range(allPicks) : Abs(pick.movement) = MAX_MOVEMENT

(* How many entries of a sequence of positions are equal to v. *)
Count(positions, v) == Cardinality({i \in DOMAIN positions : positions[i] = v})

(* C11: when every attempt of a round has failed, the result of the round  *)
(* is the identity assignment: as many picks as the initial order has      *)
(* entries, for each value p as many picks with pickNumber = p as the      *)
(* order has entries p, every pick with originalPosition = pickNumber,     *)
(* movement = 0 and round = the round number, in ascending order of        *)
(* pickNumber.                                                             *)
C11_FallbackIsIdentity ==
  (pc = "validate" /\ path = "fallback") =>
    /\ attempt = MAX_ATTEMPTS /\ ~lastAttempt.returned
    /\ Len(roundPicks) = Len(initialOrder)
    /\ \A p \in Range(initialOrder) \cup {roundPicks[i].pickNumber : i \in DOMAIN roundPicks} :
         Count([i \in DOMAIN roundPicks |-> roundPicks[i].pickNumber], p)
           = Count(initialOrder, p)
    /\ \A i \in DOMAIN roundPicks :
         /\ roundPicks[i].originalPosition = roundPicks[i].pickNumber
         /\ roundPicks[i].movement = 0
         /\ roundPicks[i].round = round
    /\ \A i, j \in DOMAIN roundPicks :
         i < j => roundPicks[i].pickNumber <= roundPicks[j].pickNumber

(* The fallback has been taken for an initial order that is not ascending. *)
C11_Witness ==
  /\ pc = "validate" /\ path = "fallback"
  /\ Len(roundPicks) >= 3
  /\ initialOrder[1] > initialOrder[2]

(* C12: every pick returned by runLotteryRound or runCompleteLottery has   *)
(* movement = pickNumber - originalPosition: negative when the team moved  *)
(* toward position 1, positive when it moved toward position N, zero when  *)
(* it kept its position, on the successful path and on the fallback path.  *)
C12_MovementIsDifference ==
  \A pick \in ReturnedPicks :
    /\ pick.movement = pick.pickNumber - pick.originalPosition
    /\ (pick.movement < 0) = (pick.pickNumber < pick.originalPosition)
    /\ (pick.movement > 0) = (pick.pickNumber > pick.originalPosition)
    /\ path = "fallback" => \A i \in DOMAIN roundPicks : roundPicks[i].movement = 0

(* A lottery has returned picks that moved up and picks that moved down. *)
C12_Witness ==
  /\ pc = "done"
  /\ \E i \in DOMAIN allPicks : allPicks[i].movement < 0
  /\ \E i \in DOMAIN allPicks : allPicks[i].movement > 0

(* The picks of round r among the picks appended so far. *)
PicksOfRound(r) == SelectSeq(allPicks, LAMBDA pick : pick.round = r)

(* One pick for each entry of the initial order, carrying the entry as     *)
(* original position, the team of that position and the round number.      *)
OnePickPerEntry(picks, roundNumber) ==
  /\ Len(picks) = Len(initialOrder)
  /\ \A v \in Range(initialOrder) \cup {picks[i].originalPosition : i \in DOMAIN picks} :
       Count([i \in DOMAIN picks |-> picks[i].originalPosition], v)
         = Count(initialOrder, v)
  /\ \A i \in DOMAIN picks :
       /\ picks[i].teamId = config.teams[picks[i].originalPosition].id
       /\ picks[i].round = roundNumber

(* C13: runLotteryRound returns exactly one pick for each entry v of the   *)
(* initial order, with originalPosition = v, teamId = config.teams[v-1].id *)
(* and round = the round number passed in; in runCompleteLottery every     *)
(* round is drawn from the caller's initial order, which no step changes,  *)
(* so no round takes the outcome of the round before it as its input.      *)
C13_EveryRoundFromInitialOrder ==
  /\ [](/\ pc = "validate" => OnePickPerEntry(roundPicks, round)
        /\ \A r \in 1..MaxRounds :
             PicksOfRound(r) # <<>> => OnePickPerEntry(PicksOfRound(r), r))
  /\ [][initialOrder' = initialOrder]_vars

(* Two rounds have been returned and the first one moved a team. *)
C13_Witness ==
  /\ pc = "done"
  /\ R = 2
  /\ \E i \in DOMAIN allPicks : allPicks[i].round = 1 /\ allPicks[i].movement # 0
  /\ \E i \in DOMAIN allPicks : allPicks[i].round = 2

(* C14: when the initial order holds at index p-1 the number t of the team *)
(* placed at position p (savedOrder[i] is the team at position i+1), the   *)
(* pick of team config.teams[t-1] has, in every round, originalPosition =  *)
(* p and a pick number within 2 of p.                                      *)
C14_SavedOrderConvention ==
  (IsPermutation(initialOrder, N) /\ TeamsComplete(config)) =>
    \A pick \in ReturnedPicks : \A p \in DOMAIN initialOrder :
      config.teams[initialOrder[p]].id = pick.teamId =>
        /\ pick.originalPosition = p
        /\ Abs(pick.pickNumber - p) <= 2

(* ---------------- properties of the direct calls ---------------- *)
(* The admissible window of the queried original position, the number of   *)
(* teams being the length of the odds table handed in (line 165).          *)
WindowMin == IF call.originalPosition - 2 < 1 THEN 1 ELSE call.originalPosition - 2

WindowMax ==
  IF call.originalPosition + 2 > Len(config.weightedSystem)
  THEN Len(config.weightedSystem) ELSE call.originalPosition + 2

(* The available positions inside the window, in the order of the array. *)
Admissible ==
  SelectSeq(call.availablePositions, LAMBDA a : a >= WindowMin /\ a <= WindowMax)

(* The odds table has an entry for the queried original position. *)
HasOddsEntry ==
  \E i \in DOMAIN config.weightedSystem :
    config.weightedSystem[i].position = call.originalPosition

(* C15: for every N >= 1 and every original position p in 1..N,            *)
(* getValidPositionRange(p, N) returns min = max(1, p-2) and               *)
(* max = min(N, p+2), so that min <= p <= max: the original position is    *)
(* inside its own window.                                                  *)
C15_WindowIsClampedInterval ==
  call.name = "getValidPositionRange" =>
    LET p == call.originalPosition
        n == call.totalTeams
    IN /\ n >= 1 /\ p \in 1..n
       /\ call.result.min = (IF p - 2 >= 1 THEN p - 2 ELSE 1)
       /\ call.result.max = (IF p + 2 <= n THEN p + 2 ELSE n)
       /\ call.result.min <= p /\ p <= call.result.max

(* A window clamped at both ends has been computed. *)
C15_Witness ==
  /\ call.name = "getValidPositionRange"
  /\ call.originalPosition - 2 < 1
  /\ call.originalPosition + 2 > call.totalTeams
  /\ call.totalTeams >= 3
  /\ call.result.min = 1 /\ call.result.max = call.totalTeams

(* C16: whenever weightedRandomSelection returns a value, the value is an  *)
(* element of availablePositions, differs from the original position by at *)
(* most 2 and is at least 1, for every draw of the random source.          *)
C16_SelectionIsAvailableAndAdmissible ==
  (call.name = "weightedRandomSelection" /\ call.result.ok) =>
    /\ \E i \in DOMAIN call.availablePositions :
         call.availablePositions[i] = call.result.value
    /\ Abs(call.result.value - call.originalPosition) <= 2
    /\ call.result.value >= 1
    /\ call.result.value <= Len(config.weightedSystem)

(* A position other than the first available one has been returned while   *)
(* positions outside the window were available.                            *)
C16_Witness ==
  /\ call.name = "weightedRandomSelection" /\ call.result.ok
  /\ Len(Admissible) >= 2
  /\ Len(call.availablePositions) > Len(Admissible)
  /\ call.result.value # call.availablePositions[1]
  /\ call.result.value # call.originalPosition

(* C17: weightedRandomSelection fails with 'No valid positions available', *)
(* and returns no position, exactly when no element of availablePositions  *)
(* lies in the admissible window of the original position; the check comes *)
(* before the odds lookup, so this is the error also when the table has no *)
(* entry for the position.                                                 *)
C17_NoValidPositionsExactly ==
  call.name = "weightedRandomSelection" =>
    /\ (call.result.error = "No valid positions available") = (Len(Admissible) = 0)
    /\ Len(Admissible) = 0 => ~call.result.ok

(* The call failed for want of a valid position although positions were    *)
(* available and the table has no entry for the original position.         *)
C17_Witness ==
  /\ call.name = "weightedRandomSelection"
  /\ call.result.error = "No valid positions available"
  /\ Len(call.availablePositions) >= 2
  /\ ~HasOddsEntry

(* C18 as stated: weightedRandomSelection fails whenever the odds table has *)
(* no entry for the queried original position, for every non-empty set of  *)
(* admissible available positions.                                         *)
C18_Original ==
  (call.name = "weightedRandomSelection" /\ ~HasOddsEntry /\ Len(Admissible) >= 1) =>
    ~call.result.ok

(* C18: weightedRandomSelection fails with 'No weighted odds found'        *)
(* whenever the odds table has no entry for the queried original position  *)
(* and two or more available positions are admissible, and only then.      *)
C18_MissingOddsFailsWithTwoCandidates ==
  call.name = "weightedRandomSelection" =>
    (call.result.error = "No weighted odds found")
      = (~HasOddsEntry /\ Len(Admissible) >= 2)

(* The call failed on the odds lookup. *)
C18_Witness ==
  /\ call.name = "weightedRandomSelection"
  /\ ~HasOddsEntry
  /\ Len(Admissible) >= 2
  /\ ~call.result.ok

(* C19: when exactly one element of availablePositions lies in the         *)
(* admissible window of the original position, weightedRandomSelection     *)
(* returns that element whatever the random source would draw and whatever *)
(* the odds table holds.                                                   *)
C19_SingleCandidateReturned ==
  (call.name = "weightedRandomSelection" /\ Len(Admissible) = 1) =>
    /\ call.result.ok
    /\ call.result.value = Admissible[1]

(* The single candidate has been returned with a random source that is not *)
(* at 0, other positions being available and the odds entry missing.       *)
C19_Witness ==
  /\ call.name = "weightedRandomSelection"
  /\ Len(Admissible) = 1
  /\ Len(call.availablePositions) >= 2
  /\ call.random > 0
  /\ ~HasOddsEntry
  /\ call.result.ok

(* The percentage of the odds entry of the queried original position. *)
Percentage ==
  config.weightedSystem[FindOdds(config.weightedSystem, call.originalPosition)].percentage

(* Five times the raw weight of candidate c: w*(1 + 0.2*(p-c)) for c < p,  *)
(* w for c = p, w*(1 - 0.2*(c-p)) for c > p.                               *)
RawWeight(c) ==
  IF c < call.originalPosition THEN Percentage * 5 + Percentage * (call.originalPosition - c)
  ELSE IF c = call.originalPosition THEN Percentage * 5
  ELSE Percentage * 5 - Percentage * (c - call.originalPosition)

(* Five times the sum of the raw weights of the first n candidates. *)
RECURSIVE CumulativeWeight(_)
CumulativeWeight(n) ==
  IF n = 0 THEN 0 ELSE CumulativeWeight(n - 1) + RawWeight(Admissible[n])

(* C20: with two or more candidates and an odds entry of percentage w > 0  *)
(* for the original position p, candidate c has the raw weight             *)
(* w*(1 + 0.2*(p-c)) for c < p, w for c = p and w*(1 - 0.2*(c-p)) for      *)
(* c > p; the weights are normalised to sum 1 and for the draw r the       *)
(* function returns the first candidate, in the order of                   *)
(* availablePositions, whose cumulative normalised weight is >= r.         *)
C20_FirstCandidateReachingDraw ==
  (/\ call.name = "weightedRandomSelection"
   /\ Len(Admissible) >= 2
   /\ HasOddsEntry
   /\ Percentage > 0) =>
    LET total == CumulativeWeight(Len(Admissible))
        reaching == {i \in 1..Len(Admissible) :
                       CumulativeWeight(i) * DrawDen >= call.random * total}
    IN /\ total > 0
       /\ reaching # {}
       /\ call.result.ok
       /\ \E i \in reaching :
            /\ \A j \in reaching : i <= j
            /\ call.result.value = Admissible[i]

(* From a descending array of three or more candidates the function has    *)
(* returned a candidate that is neither the first nor the original         *)
(* position.                                                               *)
C20_Witness ==
  /\ call.name = "weightedRandomSelection"
  /\ Len(Admissible) >= 3
  /\ HasOddsEntry
  /\ Percentage > 0
  /\ Admissible[1] > Admissible[2]
  /\ call.result.ok
  /\ call.result.value # Admissible[1]
  /\ call.result.value # call.originalPosition

(* The indices of the picks that moved more than 2 positions. *)
Offending == {i \in DOMAIN call.picks :
                call.picks[i].movement > 2 \/ call.picks[i].movement < 0 - 2}

(* C21: validateDraftResults(picks) returns valid = true exactly when      *)
(* every pick has |movement| <= 2; its error list holds exactly one        *)
(* message per pick with |movement| > 2, naming that pick's original       *)
(* position and absolute movement, in the order of the picks; an empty     *)
(* list is valid.                                                          *)
C21_ValidateReportsEachOffender ==
  call.name = "validateDraftResults" =>
    /\ call.result.valid = (Offending = {})
    /\ Len(call.result.errors) = Cardinality(Offending)
    /\ \A i \in Offending :
         LET k == Cardinality({j \in Offending : j <= i})
             m == call.picks[i].movement
         IN /\ call.result.errors[k].originalPosition = call.picks[i].originalPosition
            /\ call.result.errors[k].movement = (IF m < 0 THEN 0 - m ELSE m)
    /\ call.picks = <<>> => call.result.valid

(* A list has been validated in which a pick within the cap stands between *)
(* two picks beyond it, one moved up and one moved down.                   *)
C21_Witness ==
  /\ call.name = "validateDraftResults"
  /\ Len(call.picks) >= 3
  /\ call.picks[1].movement < 0 - 2
  /\ call.picks[2].movement = 2
  /\ call.picks[3].movement > 2
  /\ call.picks[1].originalPosition > call.picks[3].originalPosition
  /\ ~call.result.valid
  /\ Len(call.result.errors) = 2

ReturnsAlone(p, op) ==
  /\ procs[p].op = op
  /\ procs[p].pc = "writing"
  /\ procs'[p].pc = "done"
  /\ ~history.overlapped

(* The stored lotteries of the years other than y. *)
LotteriesOfOtherYears(db, y) == SelectSeq(db.lotteries, LAMBDA l : l.year # y)

(* C23: saveLottery(L) replaces by year: afterwards the store holds        *)
(* exactly one lottery of year L.year, and it is L; the lotteries of the   *)
(* other years and the config are unchanged.  So with calls run one at a   *)
(* time the store holds at most one lottery per year, and the lottery of a *)
(* year is the last one saved for it and not deleted since.                *)
C23_SaveReplacesByYear ==
  /\ [][\A p \in Procs : ReturnsAlone(p, "saveLottery") =>
          LET L == procs[p].lottery
              after == StoreOf(file')
          IN /\ LotteriesOfYear(after, L.year) = <<L>>
             /\ LotteriesOfOtherYears(after, L.year)
                  = LotteriesOfOtherYears(history.before, L.year)
             /\ after.config = history.before.config]_vars
  /\ []((~history.overlapped /\ file.state = "json") =>
          \A y \in Years :
            /\ Len(LotteriesOfYear(StoreOf(file), y)) <= 1
            /\ LotteriesOfYear(StoreOf(file), y) = history.lastSaved[y])

(* Three saves run one after the other have replaced the stored lottery of *)
(* one year twice and added a lottery of another year.                     *)
C23_Witness ==
  /\ ~history.overlapped
  /\ history.started = 2
  /\ \A p \in Procs : ~InFlight(p)
  /\ file.state = "json"
  /\ Len(file.lotteries) = 2
  /\ \E i \in DOMAIN file.lotteries :
       file.lotteries[i].year = 1 /\ file.lotteries[i].id >= 2
  /\ history.before.lotteries # <<>>

(* C24: deleteLottery(year) removes every stored lottery of that year and  *)
(* nothing else: the lotteries of the other years and the config are       *)
(* unchanged; when no lottery of that year is stored the call completes    *)
(* without error and the stored lotteries are the same as before.          *)
C24_DeleteRemovesOnlyTheYear ==
  /\ [][\A p \in Procs : ReturnsAlone(p, "deleteLottery") =>
          LET y == procs[p].year
              after == StoreOf(file')
          IN /\ LotteriesOfYear(after, y) = <<>>
             /\ after.lotteries = LotteriesOfOtherYears(history.before, y)
             /\ after.config = history.before.config
             /\ LotteriesOfYear(history.before, y) = <<>> =>
                  after.lotteries = history.before.lotteries]_vars
  /\ [](\A p \in Procs :
          (procs[p].op = "deleteLottery" /\ ~history.overlapped) =>
            procs[p].pc # "failed")

(* A delete for a year without lottery has returned and the store still    *)
(* holds the lottery of the other year.                                    *)
C24_Witness ==
  /\ ~history.overlapped
  /\ \E p \in Procs :
       /\ procs[p].op = "deleteLottery"
       /\ procs[p].pc = "done"
       /\ LotteriesOfYear(history.before, procs[p].year) = <<>>
  /\ \A p \in Procs : ~InFlight(p)
  /\ file.state = "json"
  /\ file.lotteries # <<>>
  /\ file.lotteries = history.before.lotteries

(* Two config objects agree on every property read from them. *)
SameConfig(c, d) ==
  /\ c.pickDelaySeconds = d.pickDelaySeconds
  /\ InitialOrderOf(c) = InitialOrderOf(d)

(* C25: getConfig called after updateConfig(c) returns c, its optional     *)
(* initialOrder included (a saved order comes back element for element, an *)
(* absent one stays absent); updateConfig replaces the whole config and    *)
(* leaves the stored lotteries unchanged, and after several updates        *)
(* getConfig returns the last config written.                              *)
C25_GetConfigReturnsLastUpdate ==
  /\ [][\A p \in Procs : ReturnsAlone(p, "updateConfig") =>
          LET after == StoreOf(file')
          IN /\ SameConfig(after.config, procs[p].config)
             /\ after.lotteries = history.before.lotteries]_vars
  /\ [][\A p \in Procs :
          (/\ procs[p].op = "getConfig"
           /\ procs[p].pc = "readFile"
           /\ procs'[p].pc # "readFile"
           /\ ~history.overlapped) =>
            /\ procs'[p].pc = "done"
            /\ SameConfig(procs'[p].result, history.lastConfig)]_vars

(* getConfig, run after two updates of a store that held a saved order,    *)
(* has returned the config of the second update, which has no saved order. *)
C25_Witness ==
  /\ ~history.overlapped
  /\ history.started = 2
  /\ file.state = "json"
  /\ file.lotteries # <<>>
  /\ \E p \in Procs :
       /\ procs[p].op = "getConfig"
       /\ procs[p].pc = "done"
       /\ procs[p].result.pickDelaySeconds = 1
       /\ InitialOrderOf(procs[p].result) = Undefined
  /\ \E p \in Procs :
       /\ procs[p].op = "updateConfig"
       /\ "initialOrder" \in DOMAIN procs[p].config

(* The change of caller p's call is in the store. *)
TookEffect(p) ==
  /\ procs[p].op = "saveLottery" =>
       LotteriesOfYear(StoreOf(file), procs[p].lottery.year) = <<procs[p].lottery>>
  /\ procs[p].op = "updateConfig" =>
       SameConfig(StoreOf(file).config, procs[p].config)

(* C28: two Database write operations whose read and write steps           *)
(* interleave both take effect: when saveLottery calls for two different   *)
(* years, or a saveLottery and an updateConfig, are started before either  *)
(* has written, the store after both complete contains both changes.       *)
C28_BothWritesTakeEffect ==
  (/\ history.started = 2
   /\ history.raced
   /\ \A p \in Procs : procs[p].pc = "done"
   /\ \E p, q \in Procs :
        /\ procs[p].op = "saveLottery"
        /\ \/ procs[q].op = "updateConfig"
           \/ /\ procs[q].op = "saveLottery"
              /\ procs[q].lottery.year # procs[p].lottery.year) =>
    \A p \in Procs : TookEffect(p)

(* The same entries at the opposite indices. *)
Mirrored(order) == [i \in DOMAIN order |-> order[Len(order) + 1 - i]]

WithPercentage(weightedSystem, w) ==
  [i \in DOMAIN weightedSystem |-> [weightedSystem[i] EXCEPT !.percentage = w]]

(* Percentages to compare with, in tenths of a percent: 0.1 and 100. *)
OtherPercentages == {1, 1000}

(* Ten times the proportion 1.4 : 1.2 : 1 : 0.8 : 0.6 for the movement     *)
(* originalPosition - pos = 2, 1, 0, -1, -2.                               *)
ProportionTimesTen(movement) ==
  IF movement = 2 THEN 14
  ELSE IF movement = 1 THEN 12
  ELSE IF movement = 0 THEN 10
  ELSE IF movement = 0 - 1 THEN 8
  ELSE 6

C29_TotalWithShortTeamList ==
  (Len(config.teams) < N /\ TeamLookupFails(config, initialOrder)) =>
    /\ error.kind # "TypeError"
    /\ (pc = "attemptLoop" /\ attempt > 0) => lastAttempt.error = "TypeError"

(* C30: runLotteryRound follows the order attempting -> succeeded | retry  *)
(* -> fallback: a successful attempt k returns at once and no attempt k+1  *)
(* is started; a failed attempt k below the ceiling is followed by attempt *)
(* k+1; the fallback result is returned only after exactly MAX_ATTEMPTS    *)
(* (1000 in the source) attempts have each failed, never earlier.          *)
C30_AttemptRetryFallbackOrder ==
  [][/\ (pc = "attemptLoop" /\ attempt < MAX_ATTEMPTS) =>
          /\ attempt' = attempt + 1
          /\ path' # "fallback"
          /\ \/ pc' = "validate" /\ path' = "attempt" /\ lastAttempt'.returned
             \/ pc' = "attemptLoop" /\ ~lastAttempt'.returned
     /\ pc = "validate" => (attempt' = attempt /\ pc' # "attemptLoop")
     /\ (pc = "attemptLoop" /\ pc' # "attemptLoop" /\ path' # "attempt") =>
          /\ attempt = MAX_ATTEMPTS
          /\ attempt' = attempt
          /\ ~lastAttempt.returned
          /\ path' = "fallback" \/ pc' = "error"]_vars

(* The last attempt allowed has succeeded after the attempts before it     *)
(* failed.                                                                 *)
C30_Witness ==
  /\ pc = "validate"
  /\ path = "attempt"
  /\ attempt = MAX_ATTEMPTS
  /\ lastAttempt.returned
  /\ N >= 4

(* The for loop of the try block takes its next team. *)
TeamProcessed ==
  /\ tryBlock.pc = "loop"
  /\ tryBlock.remaining # {}
  /\ tryBlock' # tryBlock

(* The positions not yet assigned in the try block that lie within         *)
(* MAX_MOVEMENT of an original position.                                   *)
FreeInWindow(originalPosition) ==
  {pos \in 1..N : /\ pos \notin tryBlock.assignedPositions
                  /\ Abs(pos - originalPosition) <= MAX_MOVEMENT}

(* C31: within one attempt of runLotteryRound under a well-formed          *)
(* configuration, each processed team adds exactly one position to the     *)
(* assigned set, that position was unassigned and inside the team's window *)
(* when chosen, no position is assigned twice, and the attempt aborts if   *)
(* and only if some team, at the moment it is processed, has no unassigned *)
(* position inside its window.                                             *)
C31_OnePositionPerTeamAbortIffNoneFree ==
  /\ [](WellFormed(config) =>
         /\ Cardinality(tryBlock.assignedPositions) = Len(tryBlock.picks)
         /\ tryBlock.assignedPositions =
              {tryBlock.picks[i].pickNumber : i \in DOMAIN tryBlock.picks}
         /\ \A i, j \in DOMAIN tryBlock.picks :
              i # j => tryBlock.picks[i].pickNumber # tryBlock.picks[j].pickNumber
         /\ tryBlock.pc # "notValid"
         /\ tryBlock.pc = "caught" => tryBlock.error = "No valid positions")
  /\ [][(WellFormed(config) /\ TeamProcessed) =>
          LET team == tryBlock'.team
              free == FreeInWindow(team.originalPosition)
          IN IF free = {}
             THEN /\ tryBlock'.pc = "caught"
                  /\ tryBlock'.assignedPositions = tryBlock.assignedPositions
                  /\ tryBlock'.picks = tryBlock.picks
             ELSE /\ tryBlock'.pc = "loop"
                  /\ Cardinality(tryBlock'.assignedPositions) =
                       Cardinality(tryBlock.assignedPositions) + 1
                  /\ \E pos \in free :
                       /\ tryBlock'.assignedPositions =
                            tryBlock.assignedPositions \cup {pos}
                       /\ Len(tryBlock'.picks) = Len(tryBlock.picks) + 1
                       /\ tryBlock'.picks[Len(tryBlock'.picks)].pickNumber = pos
                       /\ tryBlock'.picks[Len(tryBlock'.picks)].originalPosition =
                            team.originalPosition]_vars

(* Under a well-formed configuration three teams have been given three     *)
(* positions and the fourth found none free in its window.                 *)
C31_Witness ==
  /\ WellFormed(config)
  /\ IsPermutation(initialOrder, N)
  /\ tryBlock.pc = "caught"
  /\ tryBlock.error = "No valid positions"
  /\ Len(tryBlock.picks) = 3
  /\ Cardinality(tryBlock.assignedPositions) = 3

(* C32: when the odds table has exactly N = numberOfTeams entries, the     *)
(* candidate set runLotteryRound computes for a team (window bounded by    *)
(* numberOfTeams) equals the set weightedRandomSelection computes for the  *)
(* same call (window bounded by the table's length), so the 'No valid      *)
(* positions available' error of weightedRandomSelection is never raised   *)
(* from inside runLotteryRound; the same holds for a longer table, and     *)
(* that error is raised exactly when runLotteryRound has a candidate and   *)
(* weightedRandomSelection has none; with a shorter table there are a team *)
(* and a set of assigned positions for which the two sets differ.          *)
C32_CandidateSetsAgree ==
  /\ [][TeamProcessed =>
          LET originalPosition == tryBlock'.team.originalPosition
              availablePositions ==
                AvailablePositions(config, tryBlock.assignedPositions)
              inRound == RoundCandidates(config, originalPosition,
                                         tryBlock.assignedPositions)
              inSelection == SelectionCandidates(availablePositions,
                               config.weightedSystem, originalPosition)
          IN /\ Len(config.weightedSystem) >= N =>
                  /\ inRound = inSelection
                  /\ tryBlock'.error # "No valid positions available"
             /\ (tryBlock'.error = "No valid positions available")
                  <=> (inRound # <<>> /\ inSelection = <<>>)]_vars
  /\ []((/\ tryBlock.pc = "try"
         /\ Len(config.weightedSystem) < N
         /\ IsPermutation(initialOrder, N)) =>
          \E i \in DOMAIN initialOrder, assignedPositions \in SUBSET (1..N) :
            RoundCandidates(config, initialOrder[i], assignedPositions)
              # SelectionCandidates(AvailablePositions(config, assignedPositions),
                                    config.weightedSystem, initialOrder[i]))

(* With one odds entry per position a team has been placed that had two    *)
(* candidates left, the same in both functions, after two others.          *)
C32_Witness ==
  /\ OddsWellFormed(config)
  /\ tryBlock.pc = "loop"
  /\ Len(tryBlock.picks) = 3
  /\ LET before == {tryBlock.picks[i].pickNumber : i \in 1..2}
         originalPosition == tryBlock.picks[3].originalPosition
     IN /\ Len(RoundCandidates(config, originalPosition, before)) = 2
        /\ RoundCandidates(config, originalPosition, before)
             = SelectionCandidates(AvailablePositions(config, before),
                                   config.weightedSystem, originalPosition)
        /\ N \in before

(* Every team processed so far in the try block took its own original     *)
(* position.                                                               *)
OwnPositionsSoFar ==
  \A i \in DOMAIN tryBlock.picks : tryBlock.picks[i].movement = 0

(* C33: for every N >= 1, every permutation initial order and a            *)
(* well-formed configuration, each attempt of runLotteryRound can succeed: *)
(* the try block reaches its for loop; as long as every team processed so  *)
(* far has taken its own original position, there are a next team and a    *)
(* draw with which that team takes its own original position too; and once *)
(* all N teams are placed this way the attempt returns its N picks.        *)
C33_EveryAttemptCanSucceed ==
  (WellFormed(config) /\ IsPermutation(initialOrder, N)) =>
    /\ tryBlock.pc = "try" => ~TeamLookupFails(config, initialOrder)
    /\ (tryBlock.pc = "loop" /\ OwnPositionsSoFar /\ tryBlock.remaining # {}) =>
         \E t \in tryBlock.remaining, random \in Draws :
           LET step == ProcessTeam(config, round, TeamsOf(config, initialOrder)[t],
                                   tryBlock.assignedPositions, tryBlock.picks,
                                   random)
           IN /\ ~step.thrown
              /\ step.picks[Len(step.picks)].movement = 0
    /\ (tryBlock.pc = "loop" /\ OwnPositionsSoFar /\ tryBlock.remaining = {}) =>
         /\ Len(tryBlock.picks) = N
         /\ FinishAttempt(tryBlock.picks).returned

(* An attempt for the reversed order of four or more teams has returned    *)
(* with every team at its own original position.                           *)
C33_Witness ==
  /\ WellFormed(config)
  /\ N >= 4
  /\ initialOrder = Reversed(N)
  /\ tryBlock.pc = "returned"
  /\ Len(tryBlock.picks) = N
  /\ OwnPositionsSoFar

(* The picks with every field but the named ones set to 0. *)
OnlyMovement(picks) ==
  [i \in DOMAIN picks |->
     [round |-> 0, pickNumber |-> 0, teamId |-> 0, originalPosition |-> 0,
      movement |-> picks[i].movement]]

OnlyMovementAndOriginalPosition(picks) ==
  [i \in DOMAIN picks |->
     [round |-> 0, pickNumber |-> 0, teamId |-> 0,
      originalPosition |-> picks[i].originalPosition,
      movement |-> picks[i].movement]]

(* C34: validateDraftResults inspects only the movement field: it reports  *)
(* valid = true exactly when every |movement| <= 2, whatever the pick      *)
(* numbers, rounds and team ids are (repeated or missing pick numbers, a   *)
(* movement that differs from pickNumber - originalPosition); its whole    *)
(* result depends on nothing but movement and, in the messages,            *)
(* originalPosition.  So a round that passes the validation of             *)
(* runCompleteLottery need not be a permutation of 1..N.                   *)
C34_ValidateReadsOnlyMovement ==
  call.name = "validateDraftResults" =>
    /\ call.result.valid =
         (\A i \in DOMAIN call.picks : Abs(call.picks[i].movement) <= MAX_MOVEMENT)
    /\ call.result.valid = validateDraftResults(OnlyMovement(call.picks)).valid
    /\ call.result = validateDraftResults(OnlyMovementAndOriginalPosition(call.picks))

(* A list of four picks has been found valid in which every pick number is *)
(* 1 and a movement differs from pickNumber - originalPosition.            *)
C34_Witness ==
  /\ call.name = "validateDraftResults"
  /\ call.result.valid
  /\ Len(call.picks) = 4
  /\ \A i \in DOMAIN call.picks : call.picks[i].pickNumber = 1
  /\ \E i \in DOMAIN call.picks :
       call.picks[i].movement # call.picks[i].pickNumber - call.picks[i].originalPosition
  /\ \E i \in DOMAIN call.picks :
       Abs(call.picks[i].pickNumber - call.picks[i].originalPosition) > MAX_MOVEMENT

(* C35: runCompleteLottery returns the rounds concatenated in round order  *)
(* with each round sorted by pick number: for a permutation initial order  *)
(* the result has N picks per round, and the pick at 0-based index i has   *)
(* round = floor(i / N) + 1 and pickNumber = (i mod N) + 1; the same holds *)
(* for the rounds collected so far while the call is running.              *)
C35_RoundsConcatenatedInOrder ==
  IsPermutation(initialOrder, N) =>
    /\ pc = "done" => Len(allPicks) = N * R
    /\ \A i \in 0..(Len(allPicks) - 1) :
         /\ allPicks[i + 1].round = (i \div N) + 1
         /\ allPicks[i + 1].pickNumber = (i % N) + 1

(* Two rounds of three teams in reversed order have been returned, a team  *)
(* of the second round away from its original position.                    *)
C35_Witness ==
  /\ pc = "done"
  /\ initialOrder = Reversed(N)
  /\ N = 3
  /\ R = 2
  /\ Len(allPicks) = 6
  /\ allPicks[1].movement = 0
  /\ allPicks[4].movement # 0

====
